---- MODULE Spec2Model ----
(***************************************************************************)
(* Epic Games status bot (Cloudflare Worker): the poll cycle               *)
(* pollAndNotify, the persisted bot_state, the subscription store and the  *)
(* subscription matcher.                                                   *)
(*                                                                         *)
(* Event ids are strings in the source; they are numbered here: a and b    *)
(* are the ids the feed serves, FillerId(n) are ids of events that left    *)
(* the feed before the first modelled cycle.  Titles, component names and  *)
(* service filters are sequences of one-character strings so that          *)
(* toLowerCase and String.includes are computed, statuses, update ids and  *)
(* fingerprints are strings joined with \o.  The timestamps lastChecked,   *)
(* createdAt and updatedAt take no part in any decision and are left out.  *)
(***************************************************************************)
EXTENDS Integers, Sequences, FiniteSets, TLC

\* ---------------------------------------------------------------- bounds
\* ids that dropped out of the feed before the first modelled cycle
NumFiller == 49
\* poll cycles one trigger starts in one behaviour
MaxCycles == 1
\* chat commands issued in one behaviour
MaxCommands == 1
\* poll cycles cut short (runtime stop, rejected KV call) in one behaviour
MaxInterrupts == 1

\* ------------------------------------------------------ program constants
\* saveState: .slice(-50)
HistoryLimit == 50

\* ------------------------------------------------------------ basic sets
a == 1
b == 2
FillerId(n) == 100 + n
FillerIds == {FillerId(n) : n \in 1..NumFiller}

Chats == {1, 2}
\* the two callers of pollAndNotify: the cron trigger and POST /poll
Procs == {"scheduled", "poll"}

null == [null |-> TRUE]

Range(s) == {s[k] : k \in 1..Len(s)}

\* Array.prototype.includes
Includes(s, x) == \E k \in 1..Len(s) : s[k] = x

\* Array.prototype.slice(-n)
SliceLast(s, n) == IF Len(s) <= n THEN s ELSE SubSeq(s, Len(s) - n + 1, Len(s))

\* ----------------------------------------------------------------- text
\* String.prototype.toLowerCase on the letters the model uses
LowerChar(c) ==
    CASE c = "F" -> "f"
      [] c = "R" -> "r"
      [] c = "L" -> "l"
      [] c = "S" -> "s"
      [] c = "A" -> "a"
      [] OTHER -> c

ToLowerCase(s) == [k \in 1..Len(s) |-> LowerChar(s[k])]

\* .map(e => e.toLowerCase())
ToLowerCaseAll(parts) == [k \in 1..Len(parts) |-> ToLowerCase(parts[k])]

\* String.prototype.includes: needle occurs as a contiguous substring
StrIncludes(hay, needle) ==
    \E k \in 0..(Len(hay) - Len(needle)) :
        \A m \in 1..Len(needle) : hay[k + m] = needle[m]

\* Array.prototype.join(' ') over a list of names
RECURSIVE JoinSpace(_)
JoinSpace(names) ==
    IF Len(names) = 0 THEN <<>>
    ELSE IF Len(names) = 1 THEN names[1]
    ELSE names[1] \o <<" ">> \o JoinSpace(Tail(names))

\* Array.prototype.join(sep) over a list of strings
RECURSIVE Join(_, _)
Join(parts, sep) ==
    IF Len(parts) = 0 THEN <<>>
    ELSE IF Len(parts) = 1 THEN parts[1]
    ELSE parts[1] \o sep \o Join(Tail(parts), sep)

\* String.prototype.split(sep) for a one-character separator: the pieces
\* between the separators, empty ones included
RECURSIVE Split(_, _)
Split(s, sep) ==
    IF ~\E k \in 1..Len(s) : s[k] = sep THEN <<s>>
    ELSE LET k == CHOOSE k \in 1..Len(s) :
                     s[k] = sep /\ \A m \in 1..(k - 1) : s[m] # sep
         IN  <<SubSeq(s, 1, k - 1)>> \o Split(SubSeq(s, k + 1, Len(s)), sep)

\* String.prototype.trim, the blank being the only white space in use
RECURSIVE Trim(_)
Trim(s) ==
    IF Len(s) = 0 THEN s
    ELSE IF s[1] = " " THEN Trim(Tail(s))
    ELSE IF s[Len(s)] = " " THEN Trim(SubSeq(s, 1, Len(s) - 1))
    ELSE s

\* .filter(Boolean) on a list of strings: the empty string is falsy
FilterBoolean(parts) == LET Test(x) == x # <<>> IN SelectSeq(parts, Test)

\* text.trim().split(/\s+/) without the empty string it yields for ''
SplitWords(text) == FilterBoolean(Split(Trim(text), " "))

\* ------------------------------------------------------------- the feed
\* StatusEvent records as the status page serves them.  incident_updates
\* is the list of updates, newest first, each with an id and a body.
Upd(id, body) == [id |-> id, body |-> body]

\* the incident as the earlier cycles saw it (FilledState)
RawA1 == [id |-> a, name |-> <<"F", "n", " ", "L">>, status |-> "investigating",
          impact |-> "minor", incident_updates |-> <<Upd("1", "x")>>,
          components |-> <<>>]
\* same update, status changed
RawA2 == [id |-> a, name |-> <<"F", "n", " ", "L">>, status |-> "resolved",
          impact |-> "minor", incident_updates |-> <<Upd("1", "x")>>,
          components |-> <<>>]
\* same status and update id as RawA1; title, components and body edited
RawA3 == [id |-> a, name |-> <<"R", "l">>, status |-> "investigating",
          impact |-> "minor", incident_updates |-> <<Upd("1", "y")>>,
          components |-> <<<<"S">>>>]
\* a maintenance window without updates, listed as upcoming ...
RawB1 == [id |-> b, name |-> <<"S", " ", "m">>, status |-> "scheduled",
          impact |-> "maintenance", incident_updates |-> <<>>,
          components |-> <<<<"S">>>>]
\* ... and the same window once it has started
RawB2 == [id |-> b, name |-> <<"S", " ", "m">>, status |-> "in_progress",
          impact |-> "maintenance", incident_updates |-> <<>>,
          components |-> <<<<"S">>>>]

\* what /incidents/unresolved.json can hold
IncidentFeeds == {<<>>, <<RawA2>>, <<RawA3>>}
\* the incident at each impact statuspage can give it
GradedIncidentFeeds ==
    {<<>>} \cup {<<[RawA2 EXCEPT !.impact = level]>> : level \in
                   {"none", "minor", "major", "critical"}}
\* what /scheduled-maintenances/active.json can hold
ActiveFeeds == {<<>>, <<RawB2>>}
\* what /scheduled-maintenances/upcoming.json can hold
UpcomingFeeds == {<<>>, <<RawB1>>}

\* getFingerprint: `${event.status}:${event.incident_updates?.[0]?.id || ''}`
getFingerprint(event) ==
    LET latestUpdateId == IF Len(event.incident_updates) > 0
                          THEN event.incident_updates[1].id
                          ELSE ""
    IN  event.status \o ":" \o latestUpdateId

\* parseEvent: the raw record plus eventType and fingerprint
parseEvent(data, eventType) ==
    [id |-> data.id, name |-> data.name, status |-> data.status,
     impact |-> data.impact, incident_updates |-> data.incident_updates,
     components |-> data.components,
     eventType |-> eventType, fingerprint |-> getFingerprint(data)]

\* fetchFromUrl: a failed or non-OK fetch contributes the empty list
fetchFromUrl(feed, ok, eventType) ==
    IF ~ok THEN <<>>
    ELSE [k \in 1..Len(feed) |-> parseEvent(feed[k], eventType)]

\* slip: the try/catch of fetchFromUrl left out, so that one failed fetch
\* rejects Promise.all and a handler around it falls back to no events
fetchAllEvents_AllOrNothing(inc, act, upc, okInc, okAct, okUpc) ==
    IF okInc /\ okAct /\ okUpc
    THEN fetchFromUrl(inc, TRUE, "incident")
            \o fetchFromUrl(act, TRUE, "maintenance")
            \o fetchFromUrl(upc, TRUE, "maintenance")
    ELSE <<>>

\* fetchAllEvents(true): incidents, active and upcoming maintenances, flat
fetchAllEvents(inc, act, upc, okInc, okAct, okUpc) ==
    fetchFromUrl(inc, okInc, "incident")
        \o fetchFromUrl(act, okAct, "maintenance")
        \o fetchFromUrl(upc, okUpc, "maintenance")

\* -------------------------------------------------------- subscriptions
IMPACT_LEVELS == <<"none", "minor", "major", "critical">>

\* Array.prototype.indexOf, 0-based, -1 when absent
IndexOf(s, x) ==
    IF Includes(s, x) THEN (CHOOSE k \in 1..Len(s) :
                               s[k] = x /\ \A m \in 1..(k - 1) : s[m] # x) - 1
    ELSE -1

ComponentNames(event) == JoinSpace(event.components)

\* `${event.name} ${event.components?.map(c => c.name).join(' ') || ''}`.toLowerCase()
EventText(event) == ToLowerCase(event.name \o <<" ">> \o ComponentNames(event))

\* slip: the impact floor applied to events of both kinds
eventMatchesSubscription_FloorForAll(event, subscription) ==
    IF subscription.eventTypes = "incidents" /\ event.eventType = "maintenance"
    THEN FALSE
    ELSE IF subscription.eventTypes = "maintenance" /\ event.eventType = "incident"
    THEN FALSE
    ELSE IF /\ subscription.minImpact # "none"
            /\ IndexOf(IMPACT_LEVELS, event.impact)
                  < IndexOf(IMPACT_LEVELS, subscription.minImpact)
    THEN FALSE
    ELSE IF /\ Len(subscription.services) > 0
            /\ ~\E k \in 1..Len(subscription.services) :
                   StrIncludes(EventText(event),
                               ToLowerCase(subscription.services[k]))
    THEN FALSE
    ELSE TRUE

\* slip: <= where < is meant, so that an incident at the floor is dropped
eventMatchesSubscription_Strict(event, subscription) ==
    IF subscription.eventTypes = "incidents" /\ event.eventType = "maintenance"
    THEN FALSE
    ELSE IF subscription.eventTypes = "maintenance" /\ event.eventType = "incident"
    THEN FALSE
    ELSE IF /\ event.eventType = "incident"
            /\ subscription.minImpact # "none"
            /\ IndexOf(IMPACT_LEVELS, event.impact)
                  <= IndexOf(IMPACT_LEVELS, subscription.minImpact)
    THEN FALSE
    ELSE IF /\ Len(subscription.services) > 0
            /\ ~\E k \in 1..Len(subscription.services) :
                   StrIncludes(EventText(event),
                               ToLowerCase(subscription.services[k]))
    THEN FALSE
    ELSE TRUE

\* slip: an impact that is not in IMPACT_LEVELS passes every floor
eventMatchesSubscription_UnknownPasses(event, subscription) ==
    IF subscription.eventTypes = "incidents" /\ event.eventType = "maintenance"
    THEN FALSE
    ELSE IF subscription.eventTypes = "maintenance" /\ event.eventType = "incident"
    THEN FALSE
    ELSE IF /\ event.eventType = "incident"
            /\ subscription.minImpact # "none"
            /\ Includes(IMPACT_LEVELS, event.impact)
            /\ IndexOf(IMPACT_LEVELS, event.impact)
                  < IndexOf(IMPACT_LEVELS, subscription.minImpact)
    THEN FALSE
    ELSE IF /\ Len(subscription.services) > 0
            /\ ~\E k \in 1..Len(subscription.services) :
                   StrIncludes(EventText(event),
                               ToLowerCase(subscription.services[k]))
    THEN FALSE
    ELSE TRUE

eventMatchesSubscription(event, subscription) ==
    IF subscription.eventTypes = "incidents" /\ event.eventType = "maintenance"
    THEN FALSE
    ELSE IF subscription.eventTypes = "maintenance" /\ event.eventType = "incident"
    THEN FALSE
    ELSE IF /\ event.eventType = "incident"
            /\ subscription.minImpact # "none"
            /\ IndexOf(IMPACT_LEVELS, event.impact)
                  < IndexOf(IMPACT_LEVELS, subscription.minImpact)
    THEN FALSE
    ELSE IF /\ Len(subscription.services) > 0
            /\ ~\E k \in 1..Len(subscription.services) :
                   StrIncludes(EventText(event),
                               ToLowerCase(subscription.services[k]))
    THEN FALSE
    ELSE TRUE

\* lines 292-306 let the event through to the services check of line 309
PassesTypeAndImpact(event, subscription) ==
    /\ ~(subscription.eventTypes = "incidents" /\ event.eventType = "maintenance")
    /\ ~(subscription.eventTypes = "maintenance" /\ event.eventType = "incident")
    /\ ~(/\ event.eventType = "incident"
         /\ subscription.minImpact # "none"
         /\ IndexOf(IMPACT_LEVELS, event.impact)
               < IndexOf(IMPACT_LEVELS, subscription.minImpact))

\* subscription.services.length on a stored record that has no services
\* member: a TypeError, raised only when line 309 is reached
MatchThrows(event, subscription) ==
    "services" \notin DOMAIN subscription /\ PassesTypeAndImpact(event, subscription)

\* UserSubscription as saveSubscription builds it
\*   services:   subscription.services   ?? existing?.services   ?? []
\*   minImpact:  subscription.minImpact  ?? existing?.minImpact  ?? 'none'
\*   eventTypes: subscription.eventTypes ?? existing?.eventTypes ?? 'all'
\* slip: the stored value left out of the chain
MergeField_Reset(partial, existing, field, default) ==
    IF field \in DOMAIN partial THEN partial[field] ELSE default

MergeField(partial, existing, field, default) ==
    IF field \in DOMAIN partial THEN partial[field]
    ELSE IF existing # null THEN existing[field]
    ELSE default

\* slip: 'minor' as the default floor
MergeSubscription_MinorFloor(chatId, partial, existing) ==
    [chatId |-> chatId,
     services |-> MergeField(partial, existing, "services", <<>>),
     minImpact |-> MergeField(partial, existing, "minImpact", "minor"),
     eventTypes |-> MergeField(partial, existing, "eventTypes", "all")]

MergeSubscription(chatId, partial, existing) ==
    [chatId |-> chatId,
     services |-> MergeField(partial, existing, "services", <<>>),
     minImpact |-> MergeField(partial, existing, "minImpact", "none"),
     eventTypes |-> MergeField(partial, existing, "eventTypes", "all")]

\* the empty update of handleStart: saveSubscription(kv, chatId, {})
EmptyPartial == <<>>

\* saveSubscription's time stamps, for the time 'now' read at line 226:
\*   createdAt: existing?.createdAt ?? now,  updatedAt: now
\* (left out of the record where the clock is not kept)
Stamped(updated, existing, now) ==
    IF now = null THEN updated
    ELSE [chatId |-> updated.chatId,
          services |-> updated.services,
          minImpact |-> updated.minImpact,
          eventTypes |-> updated.eventTypes,
          createdAt |-> IF existing # null THEN existing.createdAt ELSE now.at,
          updatedAt |-> now.at]

\* --------------------------------------------------- the /filter command
\* how the words of the enumerations, and two words outside them, are spelled
Spelling(word) ==
    CASE word = "none" -> <<"n", "o", "n", "e">>
      [] word = "minor" -> <<"m", "i", "n", "o", "r">>
      [] word = "major" -> <<"m", "a", "j", "o", "r">>
      [] word = "critical" -> <<"c", "r", "i", "t", "i", "c", "a", "l">>
      [] word = "severe" -> <<"s", "e", "v", "e", "r", "e">>
      [] word = "incidents" -> <<"i", "n", "c", "i", "d", "e", "n", "t", "s">>
      [] word = "maintenance" ->
            <<"m", "a", "i", "n", "t", "e", "n", "a", "n", "c", "e">>
      [] word = "outages" -> <<"o", "u", "t", "a", "g", "e", "s">>

KwService == <<"s", "e", "r", "v", "i", "c", "e">>
KwEvent == <<"e", "v", "e", "n", "t">>
KwImpact == <<"i", "m", "p", "a", "c", "t">>
KwAll == <<"a", "l", "l">>

Spelled(kind) ==
    CASE kind = "service" -> KwService
      [] kind = "event" -> KwEvent
      [] kind = "impact" -> KwImpact

\* the value a typed word is stored as: the words of the enumerations are
\* the values the matcher compares with, any other word is itself
Enumerated == Range(IMPACT_LEVELS) \cup {"incidents", "maintenance"}

Stored(typed) ==
    IF \E word \in Enumerated : Spelling(word) = typed
    THEN CHOOSE word \in Enumerated : Spelling(word) = typed
    ELSE typed

\* filterValue.split(',').map(s => s.trim()).filter(Boolean)
CommaList(filterValue) ==
    LET pieces == Split(filterValue, ",")
    IN  FilterBoolean([k \in 1..Len(pieces) |-> Trim(pieces[k])])

\* slip: the .map(s => s.trim()) left out
ServiceFilter_Untrimmed(filterValue) ==
    LET services == FilterBoolean(Split(filterValue, ","))
    IN  IF \/ Len(services) = 0
           \/ Len(services) = 1 /\ ToLowerCase(services[1]) = KwAll
        THEN [services |-> <<>>]
        ELSE [services |-> services]

\* handleFilter, filterType 'service' (lines 179-188): the partial record
\* handed to saveSubscription
ServiceFilter(filterValue) ==
    LET services == CommaList(filterValue)
    IN  IF \/ Len(services) = 0
           \/ Len(services) = 1 /\ ToLowerCase(services[1]) = KwAll
        THEN [services |-> <<>>]
        ELSE [services |-> services]

\* handleFilter, filterType 'event' (lines 189-200)
EventFilter(filterValue) ==
    LET eventTypes == ToLowerCaseAll(CommaList(filterValue))
        Valid(e) == e \in {Spelling("incidents"), Spelling("maintenance")}
        selected == SelectSeq(eventTypes, Valid)
    IN  IF Len(selected) = 0 \/ Len(selected) = 2
        THEN [eventTypes |-> "all"]
        ELSE [eventTypes |-> Stored(selected[1])]

\* slip: a word that is no level saved as 'none'
ImpactFilter_Default(filterValue) ==
    LET impact == ToLowerCase(Trim(filterValue))
    IN  IF \E k \in 1..Len(IMPACT_LEVELS) : Spelling(IMPACT_LEVELS[k]) = impact
        THEN [minImpact |-> Stored(impact)]
        ELSE [minImpact |-> "none"]

\* slip: 'severe' let through the test of line 204
ImpactFilter_Severe(filterValue) ==
    LET impact == ToLowerCase(Trim(filterValue))
    IN  IF impact = Spelling("severe") THEN [minImpact |-> "severe"]
        ELSE IF \E k \in 1..Len(IMPACT_LEVELS) : Spelling(IMPACT_LEVELS[k]) = impact
        THEN [minImpact |-> Stored(impact)]
        ELSE null

\* handleFilter, filterType 'impact' (lines 201-209): null when the
\* handler only answers with the usage message
ImpactFilter(filterValue) ==
    LET impact == ToLowerCase(Trim(filterValue))
    IN  IF \E k \in 1..Len(IMPACT_LEVELS) : Spelling(IMPACT_LEVELS[k]) = impact
        THEN [minImpact |-> Stored(impact)]
        ELSE null

\* slip: the name stored in lower case
ToggleService_Lowered(args, subscription) ==
    LET serviceName == ToLowerCase(Join(args, <<" ">>))
        currentServices == subscription.services
        Same(s) == ToLowerCase(s) = ToLowerCase(serviceName)
        Other(s) == ~Same(s)
    IN  IF ToLowerCase(serviceName) = KwAll THEN [services |-> <<>>]
        ELSE IF Len(currentServices) = 0 THEN [services |-> <<serviceName>>]
        ELSE IF \E k \in 1..Len(currentServices) : Same(currentServices[k])
        THEN [services |-> SelectSeq(currentServices, Other)]
        ELSE [services |-> Append(currentServices, serviceName)]

\* handleFilter, any other first word (lines 210-227): the words are one
\* service name, toggled in the list read at line 168
ToggleService(args, subscription) ==
    LET serviceName == Join(args, <<" ">>)
        currentServices == subscription.services
        Same(s) == ToLowerCase(s) = ToLowerCase(serviceName)
        Other(s) == ~Same(s)
    IN  IF ToLowerCase(serviceName) = KwAll THEN [services |-> <<>>]
        ELSE IF Len(currentServices) = 0 THEN [services |-> <<serviceName>>]
        ELSE IF \E k \in 1..Len(currentServices) : Same(currentServices[k])
        THEN [services |-> SelectSeq(currentServices, Other)]
        ELSE [services |-> Append(currentServices, serviceName)]

\* handleFilter from line 174 on, for the record read at line 168
FilterPartial(args, subscription) ==
    LET filterType == ToLowerCase(args[1])
        filterValue == Join(Tail(args), <<" ">>)
    IN  IF filterType = KwService THEN ServiceFilter(filterValue)
        ELSE IF filterType = KwEvent THEN EventFilter(filterValue)
        ELSE IF filterType = KwImpact THEN ImpactFilter(filterValue)
        ELSE ToggleService(args, subscription)

\* ------------------------------------------------------------ bot_state
\* loadState: the stored value, or the empty default when none exists
EmptyState == [seenIds |-> <<>>, fingerprints |-> <<>>]

loadState(stored) == IF stored # null THEN stored ELSE EmptyState

\* a bot_state left by earlier cycles: NumFiller events were notified and
\* have since left the feed, and the last cycle saw RawA1 and RawB1 (saveState
\* puts the ids of its snapshot first)
FilledState ==
    [seenIds |-> <<a, b>> \o [n \in 1..NumFiller |-> FillerId(n)],
     fingerprints |-> [id \in {a, b} \cup FillerIds |->
                         IF id = a THEN getFingerprint(RawA1)
                         ELSE IF id = b THEN getFingerprint(RawB1)
                         ELSE "resolved:9"]]

\* const isNew = !state.seenIds.includes(event.id)
IsNew(state, event) == ~Includes(state.seenIds, event.id)

\* state.fingerprints[event.id] !== event.fingerprint  (undefined for a
\* missing key, which differs from every string)
FingerprintDiffers(state, event) ==
    IF event.id \in DOMAIN state.fingerprints
    THEN state.fingerprints[event.id] # event.fingerprint
    ELSE TRUE

\* slip: the !isNew guard dropped
IsUpdated_NoNewGuard(state, event) == FingerprintDiffers(state, event)

\* const isUpdated = !isNew && state.fingerprints[event.id] !== event.fingerprint
IsUpdated(state, event) == ~IsNew(state, event) /\ FingerprintDiffers(state, event)

\* slip: the fingerprint assignment moved inside `if (isNew)`
UpdateState_OnlyNew(state, event, isNew) ==
    IF isNew
    THEN [seenIds |-> Append(state.seenIds, event.id),
          fingerprints |->
             [id \in DOMAIN state.fingerprints \cup {event.id} |->
                 IF id = event.id THEN event.fingerprint ELSE state.fingerprints[id]]]
    ELSE state

\* slip: the push outside `if (isNew)`
UpdateState_AlwaysPush(state, event, isNew) ==
    [seenIds |-> Append(state.seenIds, event.id),
     fingerprints |->
        [id \in DOMAIN state.fingerprints \cup {event.id} |->
            IF id = event.id THEN event.fingerprint ELSE state.fingerprints[id]]]

\* lines 151-157: if (isNew) seenIds.push(id); fingerprints[id] = fingerprint
UpdateState(state, event, isNew) ==
    [seenIds |-> IF isNew THEN Append(state.seenIds, event.id) ELSE state.seenIds,
     fingerprints |->
        [id \in DOMAIN state.fingerprints \cup {event.id} |->
            IF id = event.id THEN event.fingerprint ELSE state.fingerprints[id]]]

CurrentIds(currentEvents) == {currentEvents[k].id : k \in 1..Len(currentEvents)}

\* state.seenIds.filter(id => currentIds.has(id))
RelevantIds(seenIds, currentIds) ==
    LET Test(id) == id \in currentIds IN SelectSeq(seenIds, Test)

\* slip: the .slice(-50) left out
HistoricalIds_NoSlice(seenIds, currentIds) ==
    LET Test(id) == id \notin currentIds IN SelectSeq(seenIds, Test)

\* state.seenIds.filter(id => !currentIds.has(id)).slice(-50)
HistoricalIds(seenIds, currentIds) ==
    LET Test(id) == id \notin currentIds
    IN  SliceLast(SelectSeq(seenIds, Test), HistoryLimit)

\* slip: fingerprints written back unfiltered
PruneFingerprints_Keep(fingerprints, seenIds) == fingerprints

\* Object.fromEntries(Object.entries(fingerprints).filter(([id]) => seenIds.includes(id)))
PruneFingerprints(fingerprints, seenIds) ==
    [id \in {k \in DOMAIN fingerprints : Includes(seenIds, k)} |-> fingerprints[id]]

\* saveState: the value written under 'bot_state'
saveState(state, currentEvents) ==
    LET currentIds == CurrentIds(currentEvents)
        seenIds == RelevantIds(state.seenIds, currentIds)
                      \o HistoricalIds(state.seenIds, currentIds)
    IN  [seenIds |-> seenIds,
         fingerprints |-> PruneFingerprints(state.fingerprints, seenIds)]

\* ---------------------------------------------------------------- state
VARIABLES
    kvState,      \* STATE namespace, key 'bot_state': null or a BotState
    kvSubs,       \* SUBSCRIPTIONS namespace, keys 'sub:<chatId>'
    kvIndex,      \* SUBSCRIPTIONS namespace, key 'subscriber_index'
    cyc,          \* per caller: the locals of its pollAndNotify invocation
    cmd,          \* per chat: the locals of its command handler in flight
    obs,          \* per caller: what its current cycle did (history)
    lastCommit,   \* history: the cycle whose saveState wrote bot_state last
    dropGroups,   \* history: seen ids absent from the feed, oldest leavers first
    nCycles,      \* per caller: cycles started and not cut short
    nCommands,    \* per chat: commands issued
    interrupted,  \* history: the cycle cut short since the last commit
    nInterrupts,  \* cycles cut short
    floor,        \* history, per chat: level of its completed /filter impact
    unsubscribed, \* history: chats whose /unsubscribe has returned and that
                  \* have issued no /start since
    web,          \* the worker's WEBHOOK_SECRET and, per chat, its last
                  \* POST /webhook request
    clock         \* the time saveSubscription reads, or null where the
                  \* time stamps of the records are left out

vars == <<kvState, kvSubs, kvIndex, cyc, cmd, obs, lastCommit, dropGroups,
          nCycles, nCommands, interrupted, nInterrupts, floor, unsubscribed,
          web, clock>>

IdleCycle == [pc |-> "idle", state |-> EmptyState, events |-> <<>>,
              subscriberIds |-> <<>>, i |-> 0, j |-> 0,
              isNew |-> FALSE, isUpdated |-> FALSE]

\* args are the words after the command, input is what the user meant to
\* type (history)
IdleCommand == [pc |-> "idle", partial |-> EmptyPartial, existing |-> null,
                ids |-> <<>>, args |-> <<>>, input |-> null]

\* loaded is the state loadState returned, ops the KV accesses to bot_state
\* and the deliveries of the cycle in the order they were made, responses
\* what the three endpoints answered (kept by FetchObserved only), floor
\* the impact floors in effect when the cycle started, unsubscribed and
\* issued the chats that had left and the commands each chat had issued
\* when the cycle started (kept by StartNoted only), failed the deliveries
\* for which sendMessage returned false (kept by SendNoted only)
NoObs == [classes |-> <<>>, examined |-> {}, attempts |-> {},
          someFailed |-> FALSE, someSucceeded |-> FALSE, prev |-> null,
          loaded |-> EmptyState, ops |-> <<>>, responses |-> <<>>,
          floor |-> [c \in Chats |-> "none"],
          unsubscribed |-> {}, issued |-> [c \in Chats |-> 0],
          failed |-> {}]

\* a subscription store two chats have built with /start, the second one
\* followed by /filter impact major
TwoSubscribers ==
    [c \in Chats |-> MergeSubscription(c, IF c = 2 THEN [minImpact |-> "major"]
                                                   ELSE EmptyPartial, null)]

InitLocals ==
    /\ cyc = [p \in Procs |-> IdleCycle]
    /\ cmd = [c \in Chats |-> IdleCommand]
    /\ obs = [p \in Procs |-> NoObs]
    /\ nCycles = [p \in Procs |-> 0]
    /\ nCommands = [c \in Chats |-> 0]
    /\ interrupted = null
    /\ nInterrupts = 0
    /\ floor = [c \in Chats |-> "none"]
    /\ unsubscribed = {}

\* request.headers.get(...) of a request without the header
NoHeader == "null"

\* a worker without WEBHOOK_SECRET that has received no request
NoWeb ==
    [secret |-> "",
     req |-> [c \in Chats |-> [status |-> "none", header |-> NoHeader, n |-> 0]]]

InitCommon == InitLocals /\ clock = null /\ web = NoWeb

\* the commit that left FilledState behind: the cron cycle whose snapshot
\* was RawA1 and RawB1
FilledCommit ==
    [by |-> "scheduled",
     events |-> fetchAllEvents(<<RawA1>>, <<>>, <<RawB1>>, TRUE, TRUE, TRUE),
     hadSubscribers |-> TRUE, failed |-> {}, earlier |-> null]

\* a fresh deployment (no bot_state stored, nobody subscribed), or one with
\* two subscribers whose earlier cycles left FilledState behind
Init ==
    /\ InitCommon
    /\ \/ /\ kvSubs = [c \in Chats |-> null]
          /\ kvIndex = <<>>
          /\ kvState = null
          /\ lastCommit = null
          /\ dropGroups = <<>>
       \/ /\ kvSubs = TwoSubscribers
          /\ kvIndex = <<1, 2>>
          /\ kvState = FilledState
          /\ lastCommit = FilledCommit
          /\ dropGroups = <<FillerIds>>

\* ---- inputs of the matcher and of the fingerprint, drawn by InitInputs
\* titles and component lists: 'FL' and 'RS', no component, 'RL', 'S' and 'L'
WideNames == {<<"F", "L">>, <<"R", "S">>}
WideComponents == {<<>>, <<<<"R", "L">>>>, <<<<"S">>, <<"L">>>>}

\* incidents at each impact level and at one impact that is no level
WideIncidents ==
    {[id |-> a, name |-> n, status |-> "investigating", impact |-> i,
      incident_updates |-> <<Upd("1", "x")>>, components |-> c] :
        n \in WideNames, i \in Range(IMPACT_LEVELS) \cup {"unknown"},
        c \in WideComponents}

WideMaintenances ==
    {[id |-> b, name |-> n, status |-> "scheduled", impact |-> i,
      incident_updates |-> <<>>, components |-> c] :
        n \in WideNames, i \in {"none", "maintenance"}, c \in WideComponents}

\* service filters: none, one that differs in case from a component, a
\* list whose second entry is in a title, one that is nowhere, one that
\* spans the title and the first component
WideServices ==
    {<<>>, <<<<"r", "L">>>>, <<<<"x">>, <<"f">>>>, <<<<"x">>>>,
     <<<<"L", " ", "s">>>>}

WideSubscriptions ==
    {[chatId |-> 1, services |-> sv, minImpact |-> mi, eventTypes |-> et] :
        sv \in WideServices, mi \in Range(IMPACT_LEVELS),
        et \in {"all", "incidents", "maintenance"}}

\* statuses and update lists as free-form strings of the feed
FreeStatuses == {"x", "x:y"}
FreeUpdates ==
    {<<>>, <<Upd("", "t")>>, <<Upd("z", "t")>>, <<Upd("y:z", "t")>>,
     <<Upd("z", "t"), Upd("w", "t")>>}

FreeEvents(id) ==
    {[id |-> id, name |-> <<"F", "L">>, status |-> st, impact |-> "minor",
      incident_updates |-> u, components |-> <<>>] :
        st \in FreeStatuses, u \in FreeUpdates}

\* snapshots of one incident, of one maintenance, and of an incident and a
\* maintenance with free-form status and updates
InputSnapshots ==
    {fetchAllEvents(<<e>>, <<>>, <<>>, TRUE, TRUE, TRUE) : e \in WideIncidents}
        \cup {fetchAllEvents(<<>>, <<e>>, <<>>, TRUE, TRUE, TRUE) :
                 e \in WideMaintenances}
        \cup {fetchAllEvents(<<e1>>, <<>>, <<e2>>, TRUE, TRUE, TRUE) :
                 e1 \in FreeEvents(a), e2 \in FreeEvents(b)}

\* a first cycle of a deployment with one subscriber, at the point where
\* loadState has returned the empty state and fetchAllEvents a snapshot
InitInputs ==
    \E subscription \in WideSubscriptions, events \in InputSnapshots :
       /\ kvSubs = [c \in Chats |-> IF c = 1 THEN subscription ELSE null]
       /\ kvIndex = <<1>>
       /\ kvState = null
       /\ lastCommit = null
       /\ dropGroups = <<>>
       /\ cyc = [p \in Procs |->
                   IF p = "scheduled"
                   THEN [IdleCycle EXCEPT !.events = events, !.pc = "subscribers"]
                   ELSE IdleCycle]
       /\ obs = [p \in Procs |->
                   IF p = "scheduled"
                   THEN [NoObs EXCEPT !.ops = <<"load">>]
                   ELSE NoObs]
       /\ cmd = [c \in Chats |-> IdleCommand]
       /\ nCycles = [p \in Procs |-> IF p = "scheduled" THEN 1 ELSE 0]
       /\ nCommands = [c \in Chats |-> 0]
       /\ interrupted = null
       /\ nInterrupts = 0
       /\ floor = [c \in Chats |-> "none"]
       /\ unsubscribed = {}
       /\ clock = null
       /\ web = NoWeb

\* ---- inputs of the commands, drawn by the steps of SpecSettings
\* the words a user puts after '/filter impact'
ImpactArgs == {"minor", "major", "critical", "severe"}

\* service names as users type them: 'F', 'f', 'r l', 'x', 'all', 'All'
ServiceLists ==
    {<<>>, <<<<"F">>>>, <<<<"r", " ", "l">>>>, <<<<"F">>, <<"r", " ", "l">>>>,
     <<<<"x">>, <<"x">>>>, <<KwAll>>, <<<<"A", "l", "l">>>>, <<KwAll, <<"F">>>>}

\* what stands between two listed names
Separators == {<<",">>, <<",", " ">>, <<" ", ",", " ">>}

ServiceInputs ==
    {[kind |-> "service", names |-> names, sep |-> sep] :
        names \in ServiceLists, sep \in Separators}

\* the event types a user lists: up to two words, and two lists of three
EventWords == {Spelling("incidents"), Spelling("maintenance"), Spelling("outages")}

EventLists ==
    {<<>>} \cup {<<w>> : w \in EventWords}
           \cup {<<w1, w2>> : w1 \in EventWords, w2 \in EventWords}
           \cup {<<Spelling("incidents"), Spelling("maintenance"),
                    Spelling("incidents")>>,
                  <<Spelling("outages"), Spelling("maintenance"),
                    Spelling("incidents")>>}

EventInputs ==
    {[kind |-> "event", names |-> names, sep |-> <<",", " ">>] : names \in EventLists}

ImpactInputs ==
    {[kind |-> "impact", names |-> <<Spelling(level)>>, sep |-> <<>>] :
        level \in ImpactArgs \cup {"none"}}

\* the bare form: the words of one service name
BareInputs ==
    {[kind |-> "bare", names |-> names, sep |-> <<" ">>] :
        names \in {<<<<"F">>>>, <<<<"f">>>>, <<<<"r">>, <<"l">>>>, <<<<"x">>>>,
                   <<KwAll>>}}

FilterInputs == ServiceInputs \cup EventInputs \cup ImpactInputs \cup BareInputs

\* the text after '/subscribe'
SubscribeTexts == {<<>>, <<"F">>, <<"r", " ", "l">>}

\* the records chat 1 can have built with the commands above
SettingsRecords ==
    {[chatId |-> 1, services |-> services, minImpact |-> minImpact,
      eventTypes |-> eventTypes] :
        services \in {<<>>, <<<<"f">>>>, <<<<"x">>>>, <<<<"F">>, <<"r", " ", "l">>>>},
        minImpact \in {"none", "major"},
        eventTypes \in {"all", "incidents"}}

\* a deployment before its first cycle: chat 1 has one of these records or
\* none, chat 2 has none
InitSettings ==
    /\ InitCommon
    /\ \E record \in SettingsRecords \cup {null} :
          /\ kvSubs = [c \in Chats |-> IF c = 1 THEN record ELSE null]
          /\ kvIndex = IF record = null THEN <<>> ELSE <<1>>
    /\ kvState = null
    /\ lastCommit = null
    /\ dropGroups = <<>>

\* the same deployments with the time stamps kept: chat 1's record was
\* created and last saved at time 0, and it is time 1
InitStamps ==
    /\ InitLocals
    /\ clock = [at |-> 1]
    /\ web = NoWeb
    /\ \E record \in SettingsRecords \cup {null} :
          /\ kvSubs = [c \in Chats |->
                         IF c = 1 /\ record # null
                         THEN Stamped(record, null, [at |-> 0])
                         ELSE null]
          /\ kvIndex = IF record = null THEN <<>> ELSE <<1>>
    /\ kvState = null
    /\ lastCommit = null
    /\ dropGroups = <<>>

\* a record under 'sub:<chatId>' that was not written by saveSubscription
\* and has no services member
MalformedRecord(c) == [chatId |-> c, minImpact |-> "major", eventTypes |-> "all"]

\* the deployment of FilledState in which the record of chat 2 is malformed
InitMalformed ==
    /\ InitCommon
    /\ kvSubs = [TwoSubscribers EXCEPT ![2] = MalformedRecord(2)]
    /\ kvIndex = <<1, 2>>
    /\ kvState = FilledState
    /\ lastCommit = FilledCommit
    /\ dropGroups = <<FillerIds>>

\* ------------------------------------------------------- history helpers
\* position of the group of dropGroups that holds id (0 when none does)
GroupOf(groups, id) ==
    IF \E k \in 1..Len(groups) : id \in groups[k]
    THEN CHOOSE k \in 1..Len(groups) : id \in groups[k]
    ELSE 0

AllDropped(groups) == UNION {groups[k] : k \in 1..Len(groups)}

\* the groups after a commit of in-memory seenIds against currentIds: ids
\* back in the feed or no longer remembered leave their group, the ids that
\* are absent for the first time form the newest group
NextDropGroups(groups, seenIds, currentIds) ==
    LET absent == Range(seenIds) \ currentIds
        kept == [k \in 1..Len(groups) |-> groups[k] \cap absent]
        NonEmpty(g) == g # {}
        fresh == absent \ AllDropped(groups)
    IN  SelectSeq(kept, NonEmpty) \o (IF fresh = {} THEN <<>> ELSE <<fresh>>)

\* --------------------------------------------------- pollAndNotify steps
Running(p) == cyc[p].pc # "idle"

CycleFrame ==
    UNCHANGED <<kvSubs, kvIndex, cmd, nCommands, floor, unsubscribed, clock,
                web>>

\* a trigger calls pollAndNotify: const state = await loadState(env.STATE)
StartFrom(p, noted) ==
    /\ ~Running(p)
    /\ nCycles[p] < MaxCycles
    /\ nCycles' = [nCycles EXCEPT ![p] = @ + 1]
    /\ cyc' = [cyc EXCEPT ![p] = [IdleCycle EXCEPT !.state = loadState(kvState),
                                                   !.pc = "fetch"]]
    /\ obs' = [obs EXCEPT ![p] = [NoObs EXCEPT !.prev = lastCommit,
                                                !.loaded = loadState(kvState),
                                                !.ops = <<"load">>,
                                                !.floor = floor,
                                                !.unsubscribed =
                                                    IF noted THEN unsubscribed ELSE @,
                                                !.issued =
                                                    IF noted THEN nCommands ELSE @]]
    /\ UNCHANGED <<kvState, lastCommit, dropGroups, interrupted, nInterrupts>>
    /\ CycleFrame

Start(p) == StartFrom(p, FALSE)

\* the same step with the chats' commands so far kept in the history
StartNoted(p) == StartFrom(p, TRUE)

\* the answer of one endpoint: the list it served, or a failure (network
\* error, non-OK status, unparsable body)
Response(feed, ok) == [ok |-> ok, events |-> IF ok THEN feed ELSE <<>>]

\* const events = await fetchAllEvents(true)
FetchFrom(p, incidentFeeds, activeFeeds, upcomingFeeds, answers, observed) ==
    /\ cyc[p].pc = "fetch"
    /\ \E inc \in incidentFeeds, act \in activeFeeds, upc \in upcomingFeeds,
          okInc \in answers, okAct \in answers, okUpc \in answers :
          /\ cyc' = [cyc EXCEPT
                       ![p].events = fetchAllEvents(inc, act, upc, okInc, okAct, okUpc),
                       ![p].pc = "subscribers"]
          /\ obs' = IF observed
                    THEN [obs EXCEPT ![p].responses =
                             <<Response(inc, okInc), Response(act, okAct),
                               Response(upc, okUpc)>>]
                    ELSE obs
    /\ UNCHANGED <<kvState, lastCommit, dropGroups, nCycles,
                   interrupted, nInterrupts>>
    /\ CycleFrame

FetchStep(p, observed) ==
    FetchFrom(p, IncidentFeeds, ActiveFeeds, UpcomingFeeds, BOOLEAN, observed)

Fetch(p) == FetchStep(p, FALSE)

\* the same step with the three answers kept in the history
FetchObserved(p) == FetchStep(p, TRUE)

\* the same step with the unresolved incident at any impact
FetchGraded(p) ==
    FetchFrom(p, GradedIncidentFeeds, ActiveFeeds, UpcomingFeeds, BOOLEAN, FALSE)

\* the same step on a day when the three endpoints answer, the incident has
\* been resolved and the maintenance window has started
FetchSteady(p) == FetchFrom(p, {<<RawA2>>}, {<<RawB2>>}, {<<>>}, {TRUE}, FALSE)

\* where the cycle goes once the subscriber list is known (lines 114-118)
AfterSubscribers(subscriberIds) ==
    IF Len(subscriberIds) = 0 THEN "save" ELSE "loop"

\* const subscriberIds = await getAllSubscriberIds(env.SUBSCRIPTIONS)
GetSubscribers(p) ==
    /\ cyc[p].pc = "subscribers"
    /\ cyc' = [cyc EXCEPT ![p].subscriberIds = kvIndex,
                          ![p].i = 1,
                          ![p].pc = AfterSubscribers(kvIndex)]
    /\ UNCHANGED <<kvState, obs, lastCommit, dropGroups, nCycles,
                   interrupted, nInterrupts>>
    /\ CycleFrame

\* head of `for (const event of events)`: lines 124-130
Classify(p) ==
    /\ cyc[p].pc = "loop"
    /\ IF cyc[p].i > Len(cyc[p].events)
       THEN /\ cyc' = [cyc EXCEPT ![p].pc = "save"]
            /\ obs' = obs
       ELSE LET event == cyc[p].events[cyc[p].i]
                isNew == IsNew(cyc[p].state, event)
                isUpdated == IsUpdated(cyc[p].state, event)
            IN  /\ obs' = [obs EXCEPT ![p].classes =
                             Append(@, [isNew |-> isNew, isUpdated |-> isUpdated])]
                /\ IF ~isNew /\ ~isUpdated
                   THEN cyc' = [cyc EXCEPT ![p].i = @ + 1]
                   ELSE cyc' = [cyc EXCEPT ![p].isNew = isNew,
                                           ![p].isUpdated = isUpdated,
                                           ![p].j = 1,
                                           ![p].pc = "subscription"]
    /\ UNCHANGED <<kvState, lastCommit, dropGroups, nCycles,
                   interrupted, nInterrupts>>
    /\ CycleFrame

\* the inner loop moves to the next chat id, or past the last one to the
\* state update of lines 151-157 and the next iteration of the outer loop
\* slip: the inner loop not advancing to the next subscriber
NextSubscriber_Again(c) == [c EXCEPT !.pc = "subscription"]

NextSubscriber(c) ==
    IF c.j < Len(c.subscriberIds)
    THEN [c EXCEPT !.j = @ + 1, !.pc = "subscription"]
    ELSE [c EXCEPT !.state = UpdateState(@, c.events[c.i], c.isNew),
                   !.i = @ + 1,
                   !.pc = "loop"]

\* slip: a listed chat without a record served as a default subscriber
SubscriptionDue_AbsentMatches(event, subscription) ==
    subscription = null \/ eventMatchesSubscription(event, subscription)

\* what the inner loop does with the record it read (lines 135-137)
SubscriptionDue(event, subscription) ==
    subscription # null /\ eventMatchesSubscription(event, subscription)

\* const subscription = await getSubscription(env.SUBSCRIPTIONS, chatId)
GetSubscription(p) ==
    /\ cyc[p].pc = "subscription"
    /\ LET chatId == cyc[p].subscriberIds[cyc[p].j]
           event == cyc[p].events[cyc[p].i]
           subscription == kvSubs[chatId]
       IN  /\ obs' = [obs EXCEPT ![p].examined =
                        @ \cup {[i |-> cyc[p].i, chatId |-> chatId,
                                 subscription |-> subscription]}]
           /\ IF subscription # null /\ MatchThrows(event, subscription)
              THEN cyc' = [cyc EXCEPT ![p].pc = "threw"]
              ELSE IF SubscriptionDue(event, subscription)
              THEN cyc' = [cyc EXCEPT ![p].pc = "send"]
              ELSE cyc' = [cyc EXCEPT ![p] = NextSubscriber(cyc[p])]
    /\ UNCHANGED <<kvState, lastCommit, dropGroups, nCycles,
                   interrupted, nInterrupts>>
    /\ CycleFrame

\* slip: isNew passed where isUpdated is meant
IsUpdateFlag_IsNew(isNew, isUpdated) == isNew

\* the isUpdate argument of sendEventNotification (line 142)
IsUpdateFlag(isNew, isUpdated) == isUpdated

\* slip: sendMessage without its try/catch, so that a failed delivery
\* rejects pollAndNotify
AfterSend_Throws(c, success) ==
    IF success THEN NextSubscriber(c) ELSE [c EXCEPT !.pc = "rejected"]

\* sendMessage returns false on an API error response and on a thrown
\* network error; pollAndNotify goes on with the next chat id either way
AfterSend(c, success) == NextSubscriber(c)

\* const success = await sendEventNotification(token, chatId, event, isUpdated)
SendFrom(p, noted) ==
    /\ cyc[p].pc = "send"
    /\ \E success \in BOOLEAN :
          /\ obs' = [obs EXCEPT
                       ![p].attempts =
                           @ \cup {[i |-> cyc[p].i,
                                    chatId |-> cyc[p].subscriberIds[cyc[p].j],
                                    isUpdate |-> IsUpdateFlag(cyc[p].isNew,
                                                              cyc[p].isUpdated)]},
                       ![p].failed =
                           IF noted /\ ~success
                           THEN @ \cup {[i |-> cyc[p].i,
                                         chatId |-> cyc[p].subscriberIds[cyc[p].j]]}
                           ELSE @,
                       ![p].someFailed = @ \/ ~success,
                       ![p].someSucceeded = @ \/ success,
                       ![p].ops = Append(@, "send")]
          /\ cyc' = [cyc EXCEPT ![p] = AfterSend(cyc[p], success)]
    /\ UNCHANGED <<kvState, lastCommit, dropGroups, nCycles,
                   interrupted, nInterrupts>>
    /\ CycleFrame

Send(p) == SendFrom(p, FALSE)

\* the same step with the failed delivery kept in the history
SendNoted(p) == SendFrom(p, TRUE)

\* slip: the `return` of line 117 left out, so that the zero-subscriber
\* branch falls through to the saveState of line 161
AfterSave_Twice(c, saved) ==
    [c EXCEPT !.state = saved, !.j = 1,
              !.pc = IF Len(c.subscriberIds) = 0 /\ c.j = 0 THEN "save" ELSE "done"]

\* saveState has assigned state.seenIds and state.fingerprints in place and
\* its kv.put has resolved: `return` on line 117, or line 163
AfterSave(c, saved) == [c EXCEPT !.state = saved, !.pc = "done"]

\* await saveState(env.STATE, state, events), on line 116 and on line 161
\* the failed deliveries of the cycle: event id, fingerprint and chat
FailedDeliveries(p) ==
    {[id |-> cyc[p].events[f.i].id,
      fingerprint |-> cyc[p].events[f.i].fingerprint,
      chatId |-> f.chatId] : f \in obs[p].failed}

SaveFrom(p, noted) ==
    /\ cyc[p].pc = "save"
    /\ LET saved == saveState(cyc[p].state, cyc[p].events)
       IN  /\ kvState' = saved
           /\ cyc' = [cyc EXCEPT ![p] = AfterSave(cyc[p], saved)]
    /\ obs' = [obs EXCEPT ![p].ops = Append(@, "save")]
    /\ lastCommit' = [by |-> p, events |-> cyc[p].events,
                      hadSubscribers |-> Len(cyc[p].subscriberIds) > 0,
                      failed |-> IF noted THEN FailedDeliveries(p) ELSE {},
                      earlier |-> IF noted /\ lastCommit # null
                                  THEN [events |-> lastCommit.events,
                                        hadSubscribers |-> lastCommit.hadSubscribers]
                                  ELSE null]
    /\ dropGroups' = NextDropGroups(dropGroups, cyc[p].state.seenIds,
                                    CurrentIds(cyc[p].events))
    /\ interrupted' = null
    /\ UNCHANGED <<nCycles, nInterrupts>>
    /\ CycleFrame

Save(p) == SaveFrom(p, FALSE)

\* the same step with the failed deliveries of the cycle and the snapshot
\* of the commit before it kept in the history
SaveNoted(p) == SaveFrom(p, TRUE)

\* line 163 and the return to the caller
Return(p) ==
    /\ cyc[p].pc = "done"
    /\ cyc' = [cyc EXCEPT ![p] = IdleCycle]
    /\ obs' = [obs EXCEPT ![p] = NoObs]
    /\ UNCHANGED <<kvState, lastCommit, dropGroups, nCycles,
                   interrupted, nInterrupts>>
    /\ CycleFrame

\* what a cycle that ends without its commit leaves to compare with
CutShort(p) ==
    [events |-> cyc[p].events, classes |-> obs[p].classes,
     attempts |-> obs[p].attempts, loaded |-> obs[p].loaded]

\* slip: kv.put wrapped in a try/catch that only logs
AfterSaveFailure_Swallowed(c, saved) == [c EXCEPT !.state = saved, !.pc = "done"]

\* kv.put of line 202 rejects: saveState rejects after it has assigned
\* state.seenIds and state.fingerprints, and nothing in pollAndNotify catches
AfterSaveFailure(c, saved) == [c EXCEPT !.state = saved, !.pc = "failed"]

\* await saveState(env.STATE, state, events) with a rejected kv.put
SaveFails(p) ==
    /\ cyc[p].pc = "save"
    /\ nInterrupts < MaxInterrupts
    /\ nInterrupts' = nInterrupts + 1
    /\ nCycles' = [nCycles EXCEPT ![p] = @ - 1]
    /\ cyc' = [cyc EXCEPT ![p] =
                  AfterSaveFailure(cyc[p], saveState(cyc[p].state, cyc[p].events))]
    /\ obs' = [obs EXCEPT ![p].ops = Append(@, "save rejected")]
    /\ interrupted' = CutShort(p)
    /\ UNCHANGED <<kvState, lastCommit, dropGroups>>
    /\ CycleFrame

\* slip: the state written back after every event instead of once at the end
StateLeftBehind_WriteThrough(stored, inMemory) == inMemory

\* pollAndNotify keeps its changes in the object loadState returned until
\* line 161: a cycle that ends earlier leaves 'bot_state' as stored
StateLeftBehind(stored, inMemory) == stored

\* the invocation ends at one of its awaits before saveState is called: the
\* runtime stops the Worker, or a KV read rejects
Interrupt(p) ==
    /\ cyc[p].pc \in {"fetch", "subscribers", "loop", "subscription", "send", "save"}
    /\ nInterrupts < MaxInterrupts
    /\ nInterrupts' = nInterrupts + 1
    /\ nCycles' = [nCycles EXCEPT ![p] = @ - 1]
    /\ kvState' = StateLeftBehind(kvState, cyc[p].state)
    /\ cyc' = [cyc EXCEPT ![p] = IdleCycle]
    /\ obs' = [obs EXCEPT ![p] = NoObs]
    /\ interrupted' = CutShort(p)
    /\ UNCHANGED <<lastCommit, dropGroups>>
    /\ CycleFrame

\* the promise of pollAndNotify rejects: POST /poll answers with an error,
\* the cron invocation is reported as failed
Reject(p) ==
    /\ cyc[p].pc \in {"failed", "threw"}
    /\ cyc' = [cyc EXCEPT ![p] = IdleCycle]
    /\ obs' = [obs EXCEPT ![p] = NoObs]
    /\ UNCHANGED <<kvState, lastCommit, dropGroups, nCycles,
                   interrupted, nInterrupts>>
    /\ CycleFrame

AfterFetch(p) ==
    \/ GetSubscribers(p)
    \/ Classify(p)
    \/ GetSubscription(p)
    \/ Send(p)
    \/ Save(p)
    \/ Return(p)

Cycle(p) ==
    \/ Fetch(p)
    \/ AfterFetch(p)

\* -------------------------------------------------------- chat commands
CommandFrame ==
    UNCHANGED <<kvState, cyc, obs, lastCommit, dropGroups, nCycles,
                interrupted, nInterrupts, web>>

CommandIdle(c) == cmd[c].pc = "idle"

\* floor once the command of chat c has returned: the level of a
\* /filter impact that saved it, unchanged after any other command
FloorAfter(c) ==
    IF "minImpact" \in DOMAIN cmd[c].partial
    THEN [floor EXCEPT ![c] = cmd[c].partial.minImpact]
    ELSE floor

\* the chats that have left once the index write of chat c's command is
\* made: removeFromSubscriberIndex writes a list without c as the last
\* step of /unsubscribe, addToSubscriberIndex a list with c
UnsubscribedAfter(c) ==
    IF Includes(cmd[c].ids, c) THEN unsubscribed ELSE unsubscribed \cup {c}

\* handleMessage '/start' (and '/subscribe' without arguments, which saves
\* {services: []}): up to the first await of saveSubscription
HandleStart(c) ==
    /\ CommandIdle(c)
    /\ nCommands[c] < MaxCommands
    /\ nCommands' = [nCommands EXCEPT ![c] = @ + 1]
    /\ cmd' = [cmd EXCEPT ![c] = [IdleCommand EXCEPT !.pc = "existing",
                                                     !.partial = EmptyPartial]]
    /\ floor' = [floor EXCEPT ![c] = "none"]
    /\ unsubscribed' = unsubscribed \ {c}
    /\ clock' = clock
    /\ UNCHANGED <<kvSubs, kvIndex>>
    /\ CommandFrame

\* handleMessage '/unsubscribe': up to the first await of deleteSubscription
HandleUnsubscribe(c) ==
    /\ CommandIdle(c)
    /\ nCommands[c] < MaxCommands
    /\ nCommands' = [nCommands EXCEPT ![c] = @ + 1]
    /\ cmd' = [cmd EXCEPT ![c] = [IdleCommand EXCEPT !.pc = "delete"]]
    /\ floor' = [floor EXCEPT ![c] = "none"]
    /\ UNCHANGED <<kvSubs, kvIndex, unsubscribed, clock>>
    /\ CommandFrame

\* handleMessage '/subscribe <words>': saveSubscription(kv, chatId,
\* {services: args}), up to its first await
HandleSubscribe(c, text) ==
    /\ CommandIdle(c)
    /\ nCommands[c] < MaxCommands
    /\ nCommands' = [nCommands EXCEPT ![c] = @ + 1]
    /\ cmd' = [cmd EXCEPT ![c] =
                  [IdleCommand EXCEPT !.pc = "existing",
                                      !.partial = [services |-> SplitWords(text)],
                                      !.args = SplitWords(text)]]
    /\ floor' = [floor EXCEPT ![c] = "none"]
    /\ unsubscribed' = unsubscribed \ {c}
    /\ clock' = clock
    /\ UNCHANGED <<kvSubs, kvIndex>>
    /\ CommandFrame

\* the text after '/filter' as the user types it for an input: the kind
\* word, then the listed names joined by the separator
FilterText(input) ==
    IF input.kind = "bare" THEN Join(input.names, input.sep)
    ELSE Spelled(input.kind) \o <<" ">> \o Join(input.names, input.sep)

\* handleMessage '/filter <text>': handleFilter up to the await of line 168;
\* without arguments it only answers with the options
HandleFilter(c, input) ==
    /\ CommandIdle(c)
    /\ nCommands[c] < MaxCommands
    /\ nCommands' = [nCommands EXCEPT ![c] = @ + 1]
    /\ LET args == SplitWords(FilterText(input))
       IN  cmd' = [cmd EXCEPT ![c] =
                     IF Len(args) = 0 THEN IdleCommand
                     ELSE [IdleCommand EXCEPT !.pc = "filter", !.args = args,
                                              !.input = input]]
    /\ floor' = [floor EXCEPT ![c] = "none"]
    /\ UNCHANGED <<kvSubs, kvIndex, unsubscribed, clock>>
    /\ CommandFrame

\* the commands handleMessage answers without a write: /settings (reads the
\* chat's record), /status (fetches the events), /help, an unknown command,
\* and text that is no command (no answer)
OtherCommands == {"/settings", "/status", "/help", "/unknown", "text"}

HandleOther(c, command) ==
    /\ CommandIdle(c)
    /\ nCommands[c] < MaxCommands
    /\ command \in OtherCommands
    /\ nCommands' = [nCommands EXCEPT ![c] = @ + 1]
    /\ UNCHANGED <<kvSubs, kvIndex, cmd, floor, unsubscribed, clock>>
    /\ CommandFrame

\* handleMessage '/filter impact <level>'
HandleFilterImpact(c, level) ==
    HandleFilter(c, [kind |-> "impact", names |-> <<Spelling(level)>>,
                     sep |-> <<>>])

\* handleFilter: const subscription = await getSubscription(...); without a
\* record, or with a level outside none|minor|major|critical, it only
\* answers with a message
FilterGetSubscription(c) ==
    /\ cmd[c].pc = "filter"
    /\ LET subscription == kvSubs[c]
           partial == FilterPartial(cmd[c].args, subscription)
       IN  IF subscription # null /\ partial # null
           THEN cmd' = [cmd EXCEPT ![c].pc = "existing", ![c].partial = partial]
           ELSE cmd' = [cmd EXCEPT ![c] = IdleCommand]
    /\ UNCHANGED <<kvSubs, kvIndex, nCommands, floor, unsubscribed, clock>>
    /\ CommandFrame

\* saveSubscription: const existing = await getSubscription(kv, chatId)
SaveGetExisting(c) ==
    /\ cmd[c].pc = "existing"
    /\ cmd' = [cmd EXCEPT ![c].existing = kvSubs[c], ![c].pc = "put"]
    /\ UNCHANGED <<kvSubs, kvIndex, nCommands, floor, unsubscribed, clock>>
    /\ CommandFrame

\* saveSubscription: await kv.put(`sub:${chatId}`, JSON.stringify(updated))
SavePut(c) ==
    /\ cmd[c].pc = "put"
    /\ kvSubs' = [kvSubs EXCEPT ![c] =
                     Stamped(MergeSubscription(c, cmd[c].partial, cmd[c].existing),
                             cmd[c].existing, clock)]
    /\ cmd' = [cmd EXCEPT ![c].pc = "addIndex"]
    /\ clock' = IF clock = null THEN null ELSE [at |-> clock.at + 1]
    /\ UNCHANGED <<kvIndex, nCommands, floor, unsubscribed>>
    /\ CommandFrame

\* slip: ids.push(chatId) without the test of ids.includes(chatId)
AddToSubscriberIndexGet_AlwaysPush(c) ==
    /\ cmd[c].pc = "addIndex"
    /\ cmd' = [cmd EXCEPT ![c].ids = Append(kvIndex, c), ![c].pc = "putIndex"]
    /\ UNCHANGED <<kvSubs, kvIndex, nCommands, floor, unsubscribed, clock>>
    /\ CommandFrame

\* addToSubscriberIndex: const ids = await getAllSubscriberIds(kv);
\* if (!ids.includes(chatId)) ids.push(chatId)
AddToSubscriberIndexGet(c) ==
    /\ cmd[c].pc = "addIndex"
    /\ IF Includes(kvIndex, c)
       THEN /\ cmd' = [cmd EXCEPT ![c] = IdleCommand]
            /\ floor' = FloorAfter(c)
       ELSE /\ cmd' = [cmd EXCEPT ![c].ids = Append(kvIndex, c), ![c].pc = "putIndex"]
            /\ floor' = floor
    /\ UNCHANGED <<kvSubs, kvIndex, nCommands, unsubscribed, clock>>
    /\ CommandFrame

\* slip: the record left in place, the chat only taken off the index
KvDelete_Kept(subs, c) == subs

\* kv.delete(`sub:${chatId}`)
KvDelete(subs, c) == [subs EXCEPT ![c] = null]

\* deleteSubscription: await kv.delete(`sub:${chatId}`)
DeleteSubscription(c) ==
    /\ cmd[c].pc = "delete"
    /\ kvSubs' = KvDelete(kvSubs, c)
    /\ cmd' = [cmd EXCEPT ![c].pc = "removeIndex"]
    /\ UNCHANGED <<kvIndex, nCommands, floor, unsubscribed, clock>>
    /\ CommandFrame

\* removeFromSubscriberIndex: const ids = await getAllSubscriberIds(kv);
\* const filtered = ids.filter(id => id !== chatId)
RemoveFromSubscriberIndexGet(c) ==
    /\ cmd[c].pc = "removeIndex"
    /\ LET Other(id) == id # c
       IN  cmd' = [cmd EXCEPT ![c].ids = SelectSeq(kvIndex, Other),
                              ![c].pc = "putIndex"]
    /\ UNCHANGED <<kvSubs, kvIndex, nCommands, floor, unsubscribed, clock>>
    /\ CommandFrame

\* await kv.put('subscriber_index', JSON.stringify(ids)), in
\* addToSubscriberIndex and in removeFromSubscriberIndex
PutSubscriberIndex(c) ==
    /\ cmd[c].pc = "putIndex"
    /\ kvIndex' = cmd[c].ids
    /\ cmd' = [cmd EXCEPT ![c] = IdleCommand]
    /\ floor' = FloorAfter(c)
    /\ unsubscribed' = UnsubscribedAfter(c)
    /\ clock' = clock
    /\ UNCHANGED <<kvSubs, nCommands>>
    /\ CommandFrame

\* slip: only a header that is present is compared with the secret
Authorized_Lenient(secret, header) ==
    secret = "" \/ header = NoHeader \/ header = secret

\* handleWebhook lines 76-81: without WEBHOOK_SECRET every request passes
Authorized(secret, header) == secret = "" \/ header = secret

\* handleWebhook for an update of chat c: 401, or handleMessage is called
WebhookRequest(c, header) ==
    /\ web.req[c].status # "handling"
    /\ Authorized(web.secret, header) => nCommands[c] < MaxCommands
    /\ web' = [web EXCEPT !.req[c] =
                  [status |-> IF Authorized(web.secret, header) THEN "handling"
                              ELSE "401",
                   header |-> header, n |-> nCommands[c]]]
    /\ UNCHANGED <<kvState, kvSubs, kvIndex, cyc, cmd, obs, lastCommit,
                   dropGroups, nCycles, nCommands, interrupted, nInterrupts,
                   floor, unsubscribed, clock>>

\* the request of chat c has passed the check and awaits handleMessage
Passed(c) == web.req[c].status = "handling" /\ web.req[c].n = nCommands[c]

\* handleWebhook line 90: handleMessage has returned, the answer is 200
WebhookRespond(c) ==
    /\ web.req[c].status = "handling"
    /\ web.req[c].n < nCommands[c]
    /\ CommandIdle(c)
    /\ web' = [web EXCEPT !.req[c].status = "200"]
    /\ UNCHANGED <<kvState, kvSubs, kvIndex, cyc, cmd, obs, lastCommit,
                   dropGroups, nCycles, nCommands, interrupted, nInterrupts,
                   floor, unsubscribed, clock>>

Command(c) ==
    \/ SaveGetExisting(c)
    \/ SavePut(c)
    \/ AddToSubscriberIndexGet(c)
    \/ DeleteSubscription(c)
    \/ RemoveFromSubscriberIndexGet(c)
    \/ PutSubscriberIndex(c)

\* ------------------------------------------------------- specifications
NoCycleRunning == \A p \in Procs : ~Running(p)
NoCommandRunning == \A c \in Chats : CommandIdle(c)

\* The scheduling the design assumes: a trigger (cron or POST /poll) starts
\* a cycle only when no cycle is running, and Telegram hands over one
\* update at a time.  The steps of a command and of a cycle interleave.
RECURSIVE Total(_, _)
Total(count, chats) ==
    IF chats = {} THEN 0
    ELSE LET c == CHOOSE x \in chats : TRUE
         IN  count[c] + Total(count, chats \ {c})

\* one update at a time, MaxCommands of them from all chats together
OneAtATime == NoCommandRunning /\ Total(nCommands, Chats) < MaxCommands

StartSerial(p) == NoCycleRunning /\ Start(p)
HandleStartSerial(c) == OneAtATime /\ HandleStart(c)
HandleUnsubscribeSerial(c) == OneAtATime /\ HandleUnsubscribe(c)

Next ==
    \/ StartSerial("scheduled")
    \/ Cycle("scheduled")
    \/ \E c \in Chats : HandleStartSerial(c)
    \/ \E c \in Chats : HandleUnsubscribeSerial(c)
    \/ \E c \in Chats : Command(c)

Spec == Init /\ [][Next]_vars


\* What the code allows: nothing in fetch() or scheduled() keeps a trigger
\* from starting pollAndNotify while another invocation is between its
\* loadState and its saveState.
NextOverlap ==
    \/ \E p \in Procs : Start(p)
    \/ \E p \in Procs : Cycle(p)

SpecOverlap == Init /\ [][NextOverlap]_vars

\* Commands as the code allows them: the handlers of different chats run
\* concurrently (one webhook request each), a chat's own commands one after
\* the other; the cron cycles run beside them.  One command more than
\* MaxCommands is issued by all chats together.
OneMore == Total(nCommands, Chats) <= MaxCommands

NextLeave ==
    \/ \E c \in Chats : OneMore /\ HandleStart(c)
    \/ \E c \in Chats : OneMore /\ HandleUnsubscribe(c)
    \/ \E c \in Chats : Command(c)
    \/ NoCycleRunning /\ StartNoted("scheduled")
    \/ FetchSteady("scheduled")
    \/ AfterFetch("scheduled")

SpecLeave == Init /\ [][NextLeave]_vars

\* A deployment with two subscribers before its first cycle, with the
\* event loop's guarantee: a cycle whose awaited call has returned is
\* resumed.
InitLive ==
    /\ InitCommon
    /\ kvSubs = TwoSubscribers
    /\ kvIndex = <<1, 2>>
    /\ kvState = null
    /\ lastCommit = null
    /\ dropGroups = <<>>

SpecLive ==
    /\ InitLive
    /\ [][NextLeave]_vars
    /\ WF_vars(FetchSteady("scheduled") \/ AfterFetch("scheduled"))

\* The commands alone, the handlers of different chats running concurrently.
NextCommands ==
    \/ \E c \in Chats : HandleStart(c)
    \/ \E c \in Chats : HandleUnsubscribe(c)
    \/ \E c \in Chats : Command(c)

SpecCommands == Init /\ [][NextCommands]_vars

\* Serial cycles of both callers with their history kept: the cron trigger
\* fires up to MaxCycles times, and POST /poll is called once.
PollOnce == NoCycleRunning /\ nCycles["poll"] = 0 /\ Start("poll")

CycleNoted(p) ==
    \/ Fetch(p)
    \/ GetSubscribers(p)
    \/ Classify(p)
    \/ GetSubscription(p)
    \/ SendNoted(p)
    \/ SaveNoted(p)
    \/ Return(p)

NextHistory ==
    \/ StartSerial("scheduled")
    \/ PollOnce
    \/ \E p \in Procs : CycleNoted(p)

SpecHistory == Init /\ [][NextHistory]_vars

\* The commands that change a subscription, one update at a time.
NextSettings ==
    \/ \E c \in Chats, input \in FilterInputs : OneAtATime /\ HandleFilter(c, input)
    \/ \E c \in Chats, text \in SubscribeTexts : OneAtATime /\ HandleSubscribe(c, text)
    \/ \E c \in Chats : HandleStartSerial(c)
    \/ \E c \in Chats : HandleUnsubscribeSerial(c)
    \/ \E c \in Chats, command \in OtherCommands :
          OneAtATime /\ HandleOther(c, command)
    \/ \E c \in Chats : FilterGetSubscription(c)
    \/ \E c \in Chats : Command(c)

SpecSettings == InitSettings /\ [][NextSettings]_vars

SpecStamps == InitStamps /\ [][NextSettings]_vars

\* The webhook of a worker with or without WEBHOOK_SECRET: requests with
\* the secret, with another token and without the header; the updates that
\* pass are handled one at a time.
InitWebhook ==
    /\ InitLocals
    /\ clock = null
    /\ \E secret \in {"", "s"} : web = [NoWeb EXCEPT !.secret = secret]
    /\ \/ kvSubs = [c \in Chats |-> null] /\ kvIndex = <<>>
       \/ kvSubs = TwoSubscribers /\ kvIndex = <<1, 2>>
    /\ kvState = null
    /\ lastCommit = null
    /\ dropGroups = <<>>

NextWebhook ==
    \/ \E c \in Chats, header \in {NoHeader, "s", "t"} : WebhookRequest(c, header)
    \/ \E c \in Chats : Passed(c) /\ HandleStartSerial(c)
    \/ \E c \in Chats : Passed(c) /\ HandleUnsubscribeSerial(c)
    \/ \E c \in Chats, command \in OtherCommands :
          Passed(c) /\ OneAtATime /\ HandleOther(c, command)
    \/ \E c \in Chats : Command(c)
    \/ \E c \in Chats : WebhookRespond(c)

SpecWebhook == InitWebhook /\ [][NextWebhook]_vars

\* Serial cycles of the cron trigger that can be cut short: the invocation
\* ends at an await, or the kv.put of saveState rejects.
NextFaults ==
    \/ StartSerial("scheduled")
    \/ Cycle("scheduled")
    \/ Interrupt("scheduled")
    \/ SaveFails("scheduled")
    \/ Reject("scheduled")

SpecFaults == Init /\ [][NextFaults]_vars

\* Serial cycles of the cron trigger with the endpoints' answers observed.
NextFetch ==
    \/ StartSerial("scheduled")
    \/ FetchObserved("scheduled")
    \/ AfterFetch("scheduled")

SpecFetch == Init /\ [][NextFetch]_vars

\* The rest of a cycle whose subscriber record and snapshot InitInputs drew.
NextInputs == AfterFetch("scheduled")

SpecInputs == InitInputs /\ [][NextInputs]_vars

\* the steps a '/filter impact' command takes after handleMessage
FilterCommand(c) ==
    \/ FilterGetSubscription(c)
    \/ SaveGetExisting(c)
    \/ SavePut(c)
    \/ AddToSubscriberIndexGet(c)

\* '/filter impact' commands and cycles of the cron trigger that follow
\* one another: a command is handled between two cycles, and a cycle
\* starts once the command before it has returned.
HandleFilterImpactBetweenCycles(c, level) ==
    NoCycleRunning /\ OneAtATime /\ HandleFilterImpact(c, level)
StartAfterCommand(p) == NoCommandRunning /\ StartSerial(p)

NextFilter ==
    \/ \E c \in Chats, level \in ImpactArgs : HandleFilterImpactBetweenCycles(c, level)
    \/ \E c \in Chats : FilterCommand(c)
    \/ StartAfterCommand("scheduled")
    \/ FetchGraded("scheduled")
    \/ AfterFetch("scheduled")

SpecFilter == Init /\ [][NextFilter]_vars

\* Serial cycles of the cron trigger over a store with a malformed record.
NextMalformed ==
    \/ StartSerial("scheduled")
    \/ Cycle("scheduled")
    \/ Reject("scheduled")

SpecMalformed == InitMalformed /\ [][NextMalformed]_vars

\* ---------------------------------------------------------------- claims
Changed(class) == class.isNew \/ class.isUpdated

UniqueIds(events) ==
    \A k, m \in 1..Len(events) : events[k].id = events[m].id => k = m

LatestUpdateId(event) ==
    IF Len(event.incident_updates) > 0 THEN event.incident_updates[1].id ELSE ""

\* every changed event of the cycle has had every listed chat examined once,
\* and every examined chat whose record matched has had its delivery attempted
AllDueAttempted(p) ==
    /\ Len(obs[p].classes) = Len(cyc[p].events)
    /\ \A i \in 1..Len(cyc[p].events), k \in 1..Len(cyc[p].subscriberIds) :
          Changed(obs[p].classes[i]) =>
             /\ Cardinality({x \in obs[p].examined :
                    x.i = i /\ x.chatId = cyc[p].subscriberIds[k]}) = 1
             /\ \A x \in obs[p].examined :
                   (/\ x.i = i
                    /\ x.chatId = cyc[p].subscriberIds[k]
                    /\ x.subscription # null
                    /\ eventMatchesSubscription(cyc[p].events[i], x.subscription))
                   => \E att \in obs[p].attempts :
                          att.i = i /\ att.chatId = x.chatId

\* C1: each step that classifies an event of the snapshot makes it exactly
\* one of NEW, UPDATED, UNCHANGED: NEW iff its id is not in state.seenIds,
\* UPDATED iff the id is in seenIds and the stored fingerprint differs from
\* the event's, UNCHANGED (the event is skipped) otherwise.
C1_Classification ==
    [][\A p \in Procs :
          Len(obs'[p].classes) = Len(obs[p].classes) + 1 =>
             LET k == Len(obs'[p].classes)
                 class == obs'[p].classes[k]
                 event == cyc[p].events[k]
                 state == cyc[p].state
                 seen == event.id \in Range(state.seenIds)
                 differs == \/ event.id \notin DOMAIN state.fingerprints
                            \/ state.fingerprints[event.id] # event.fingerprint
                 new == class.isNew
                 updated == class.isUpdated
                 unchanged == cyc'[p].pc = "loop" /\ cyc'[p].i = k + 1
             IN  /\ k = cyc[p].i
                 /\ new <=> ~seen
                 /\ updated <=> (seen /\ differs)
                 /\ unchanged <=> (~new /\ ~updated)
                 /\ ~(new /\ updated) /\ ~(new /\ unchanged) /\ ~(updated /\ unchanged)
                 /\ new \/ updated \/ unchanged
                 /\ ~unchanged => cyc'[p].pc = "subscription" /\ cyc'[p].i = k
      ]_vars

\* C1 witness: seenIds holds a with fingerprint 'investigating:1' and the
\* incoming a with status 'resolved' and update id '1' is classified UPDATED
C1_Witness ==
    \E p \in Procs :
       /\ cyc[p].pc = "subscription"
       /\ cyc[p].isUpdated /\ ~cyc[p].isNew
       /\ cyc[p].events[cyc[p].i].id = a
       /\ cyc[p].events[cyc[p].i].status = "resolved"
       /\ LatestUpdateId(cyc[p].events[cyc[p].i]) = "1"
       /\ Includes(cyc[p].state.seenIds, a)
       /\ cyc[p].state.fingerprints[a] = "investigating:1"

\* C2: after the commit of a cycle that found the subscriber index empty,
\* every event id of the snapshot is in seenIds and fingerprints[id] is the
\* event's fingerprint.
C2_ZeroSubscribersAdvance ==
    \A p \in Procs :
       (cyc[p].pc = "done" /\ Len(cyc[p].subscriberIds) = 0) =>
          \A k \in 1..Len(cyc[p].events) :
             /\ Includes(kvState.seenIds, cyc[p].events[k].id)
             /\ cyc[p].events[k].id \in DOMAIN kvState.fingerprints
             /\ kvState.fingerprints[cyc[p].events[k].id] = cyc[p].events[k].fingerprint

\* C3: of the seen ids absent from the snapshot, a commit discards only ids
\* that left the feed no later than every id it retains.
C3_RetainsMostRecentlyDropped ==
    kvState # null =>
       \A x, y \in AllDropped(dropGroups) :
          (~Includes(kvState.seenIds, x) /\ Includes(kvState.seenIds, y)) =>
             GroupOf(dropGroups, x) <= GroupOf(dropGroups, y)

\* C4: in a cycle that loaded the state committed by a cycle with at least
\* one listed subscriber, no delivery is attempted for an event that the
\* earlier snapshot held with the same id, status and latest update id.
C4_NoRenotification ==
    \A p \in Procs : \A att \in obs[p].attempts :
       (obs[p].prev # null /\ obs[p].prev.hadSubscribers) =>
          ~\E k \in 1..Len(obs[p].prev.events) :
               LET before == obs[p].prev.events[k]
                   now == cyc[p].events[att.i]
               IN  /\ before.id = now.id
                   /\ before.status = now.status
                   /\ LatestUpdateId(before) = LatestUpdateId(now)

\* C5: a delivery is attempted for (chat, event) iff the event was
\* classified NEW or UPDATED, the chat is in the subscriber list read at the
\* start of the cycle and the record read for the pair matches the event;
\* isUpdate is true exactly for UPDATED events and false for NEW ones.
C5_DeliveryIffDue ==
    \A p \in Procs :
       /\ \A att \in obs[p].attempts :
             /\ att.i \in 1..Len(obs[p].classes)
             /\ Changed(obs[p].classes[att.i])
             /\ Includes(cyc[p].subscriberIds, att.chatId)
             /\ \E x \in obs[p].examined :
                   /\ x.i = att.i /\ x.chatId = att.chatId
                   /\ x.subscription # null
                   /\ eventMatchesSubscription(cyc[p].events[att.i], x.subscription)
             /\ att.isUpdate <=> obs[p].classes[att.i].isUpdated
             /\ obs[p].classes[att.i].isNew => ~att.isUpdate
       /\ cyc[p].pc \in {"save", "done"} /\ Len(cyc[p].subscriberIds) > 0
             => AllDueAttempted(p)

\* C5 witness: a finished cycle that delivered an update to one chat and
\* skipped a listed chat whose record did not match
C5_Witness ==
    \E p \in Procs :
       /\ cyc[p].pc = "done"
       /\ \E att \in obs[p].attempts : att.isUpdate
       /\ \E x \in obs[p].examined :
             /\ x.subscription # null
             /\ ~eventMatchesSubscription(cyc[p].events[x.i], x.subscription)

\* C6: after the commit of a cycle with at least one listed subscriber and a
\* snapshot with unique ids, every snapshot id is in seenIds with the event's
\* fingerprint, whatever the delivery outcomes were.
C6_CommitRecordsSnapshot ==
    \A p \in Procs :
       (/\ cyc[p].pc = "done"
        /\ Len(cyc[p].subscriberIds) > 0
        /\ UniqueIds(cyc[p].events)) =>
          \A k \in 1..Len(cyc[p].events) :
             /\ Includes(kvState.seenIds, cyc[p].events[k].id)
             /\ cyc[p].events[k].id \in DOMAIN kvState.fingerprints
             /\ kvState.fingerprints[cyc[p].events[k].id] = cyc[p].events[k].fingerprint

\* C6 witness: a committed cycle with an UPDATED event all of whose delivery
\* attempts failed
C6_Witness ==
    \E p \in Procs :
       /\ cyc[p].pc = "done"
       /\ UniqueIds(cyc[p].events)
       /\ obs[p].attempts # {}
       /\ obs[p].someFailed /\ ~obs[p].someSucceeded
       /\ \E k \in 1..Len(obs[p].classes) : obs[p].classes[k].isUpdated

\* C7: once a delivery of a cycle has failed the cycle still runs on: it
\* stays on the path to saveState, and when it has finished every due
\* (chat, event) pair has been attempted and its state is committed.
C7_FailureDoesNotAbort ==
    \A p \in Procs :
       obs[p].someFailed =>
          /\ cyc[p].pc \in {"subscription", "send", "loop", "save", "done"}
          /\ cyc[p].pc = "done" =>
                /\ AllDueAttempted(p)
                /\ lastCommit # null
                /\ lastCommit.by = p
                /\ lastCommit.events = cyc[p].events
                /\ kvState = cyc[p].state

\* C7 witness: a committed cycle in which one delivery failed and another
\* one was made and succeeded
C7_Witness ==
    \E p \in Procs :
       /\ cyc[p].pc = "done"
       /\ obs[p].someFailed /\ obs[p].someSucceeded
       /\ Cardinality(obs[p].attempts) >= 2

C9_FingerprintKeys ==
    kvState # null => DOMAIN kvState.fingerprints = Range(kvState.seenIds)

\* C9 witness: a commit that discarded id a together with its fingerprint
\* and kept the fingerprints of the ids it retained
C9_Witness ==
    /\ lastCommit # null
    /\ kvState.seenIds # <<>>
    /\ a \in AllDropped(dropGroups)
    /\ ~Includes(kvState.seenIds, a)
    /\ a \notin DOMAIN kvState.fingerprints

\* C10: no two invocations of pollAndNotify are at the same time between
\* their loadState and their saveState.
BetweenLoadAndSave(p) ==
    cyc[p].pc \in {"fetch", "subscribers", "loop", "subscription", "send", "save"}

C10_NoOverlap ==
    \A p, q \in Procs :
       (BetweenLoadAndSave(p) /\ BetweenLoadAndSave(q)) => p = q

\* C11: a cycle cut short before saveState has written leaves 'bot_state' as
\* the cycle loaded it; a later cycle over the same snapshot loads the same
\* state, classifies every event as the cut-short cycle did, and before its
\* own saveState has attempted again every delivery the cut-short cycle made.
C11_CutShortCycleRepeats ==
    interrupted # null =>
       /\ loadState(kvState) = interrupted.loaded
       /\ \A p \in Procs :
             (cyc[p].pc \notin {"idle", "fetch"}
                 /\ cyc[p].events = interrupted.events) =>
                /\ obs[p].loaded = interrupted.loaded
                /\ \A k \in 1..Len(obs[p].classes) :
                      k <= Len(interrupted.classes) =>
                         obs[p].classes[k] = interrupted.classes[k]
                /\ cyc[p].pc = "save" => interrupted.attempts \subseteq obs[p].attempts

\* C11 witness: a cycle was cut short after a delivery, and the next cycle
\* over the same snapshot has classified as much and delivered it again
C11_Witness ==
    \E p \in Procs :
       /\ interrupted # null
       /\ interrupted.attempts # {}
       /\ cyc[p].pc = "save"
       /\ cyc[p].events = interrupted.events
       /\ Len(obs[p].classes) >= Len(interrupted.classes)
       /\ interrupted.attempts \subseteq obs[p].attempts

\* C12: in every cycle 'bot_state' is read once, as the first thing the
\* cycle does; it is written at most once; nothing, in particular no
\* delivery, follows the write; and when the write is made every due
\* delivery has been attempted and has returned.
C12_LoadOnceSaveLast ==
    \A p \in Procs :
       Running(p) =>
          LET ops == obs[p].ops
              Sends == {k \in 1..Len(ops) : ops[k] = "send"}
          IN  /\ Len(ops) >= 1 /\ ops[1] = "load"
              /\ \A k \in 2..Len(ops) : ops[k] # "load"
              /\ \A k, m \in 1..Len(ops) :
                    (ops[k] = "save" /\ ops[m] = "save") => k = m
              /\ \A k \in 1..Len(ops) : ops[k] = "save" => k = Len(ops)
              /\ Cardinality(Sends) = Cardinality(obs[p].attempts)
              /\ cyc[p].pc = "done" =>
                    /\ ops[Len(ops)] = "save"
                    /\ Len(cyc[p].subscriberIds) > 0 => AllDueAttempted(p)

\* C12 witness: a finished cycle that loaded, delivered twice and then saved
C12_Witness ==
    \E p \in Procs :
       /\ cyc[p].pc = "done"
       /\ Len(obs[p].ops) >= 4
       /\ obs[p].ops[1] = "load"
       /\ obs[p].ops[2] = "send" /\ obs[p].ops[3] = "send"
       /\ obs[p].ops[Len(obs[p].ops)] = "save"

\* C13: every event of a snapshot is classified against the state the cycle
\* loaded: NEW iff its id is not in the loaded seenIds, UPDATED iff it is and
\* the loaded fingerprint differs.
C13_ClassifiedAgainstLoaded ==
    \A p \in Procs :
       \A k \in 1..Len(obs[p].classes) :
          /\ obs[p].classes[k].isNew <=> IsNew(obs[p].loaded, cyc[p].events[k])
          /\ obs[p].classes[k].isUpdated <=> IsUpdated(obs[p].loaded, cyc[p].events[k])

\* C14: when the kv.put of saveState has rejected, the cycle ends rejected
\* (pc "failed", the caller gets the error), 'bot_state' and the last commit
\* are what they were when the cycle loaded, and a cycle that runs before
\* the next commit loads that prior state.
C14_FailedWriteSurfaces ==
    /\ \A p \in Procs :
          (Running(p) /\ obs[p].ops[Len(obs[p].ops)] = "save rejected") =>
             /\ cyc[p].pc = "failed"
             /\ loadState(kvState) = obs[p].loaded
             /\ lastCommit = obs[p].prev
             /\ interrupted # null /\ interrupted.loaded = obs[p].loaded
    /\ \A p \in Procs :
          (Running(p) /\ interrupted # null) => obs[p].loaded = interrupted.loaded

\* C14 witness: the write of a changed state was rejected, the invocation
\* has ended with the error and 'bot_state' is the state it had loaded
C14_Witness ==
    \E p \in Procs :
       /\ cyc[p].pc = "failed"
       /\ cyc[p].state # obs[p].loaded
       /\ obs[p].attempts # {}
       /\ loadState(kvState) = obs[p].loaded

\* C15: a listed chat whose stored record has no services list is treated
\* like a chat without a record: matching never raises, and no delivery is
\* attempted to a chat for which such a record was read.
WellFormed(subscription) ==
    {"chatId", "services", "minImpact", "eventTypes"} \subseteq DOMAIN subscription

C15_MalformedIsAbsent ==
    \A p \in Procs :
       /\ cyc[p].pc # "threw"
       /\ \A att \in obs[p].attempts : \A x \in obs[p].examined :
             (x.i = att.i /\ x.chatId = att.chatId) => WellFormed(x.subscription)

\* C16: the snapshot of a cycle holds nothing for an endpoint whose fetch
\* failed and, in order, every event the other endpoints served, with the
\* kind of its endpoint; the cycle never ends rejected, and a cycle with a
\* listed subscriber and unique ids finishes with every due delivery
\* attempted and every event of the snapshot committed.
Kinds == <<"incident", "maintenance", "maintenance">>

C16_FailedFetchIsEmpty ==
    \A p \in Procs :
       (Running(p) /\ cyc[p].pc # "fetch") =>
          LET r == obs[p].responses
              events == cyc[p].events
              Offset(c) == IF c = 1 THEN 0
                           ELSE IF c = 2 THEN Len(r[1].events)
                           ELSE Len(r[1].events) + Len(r[2].events)
          IN  /\ Len(r) = 3
              /\ \A c \in 1..3 : ~r[c].ok => r[c].events = <<>>
              /\ Len(events) = Len(r[1].events) + Len(r[2].events) + Len(r[3].events)
              /\ \A c \in 1..3 : \A k \in 1..Len(r[c].events) :
                    LET event == events[Offset(c) + k]
                    IN  /\ event.id = r[c].events[k].id
                        /\ event.status = r[c].events[k].status
                        /\ event.name = r[c].events[k].name
                        /\ event.eventType = Kinds[c]
              /\ cyc[p].pc \notin {"failed", "threw", "rejected"}
              /\ (cyc[p].pc = "done" /\ Len(cyc[p].subscriberIds) > 0
                     /\ UniqueIds(events)) =>
                    /\ AllDueAttempted(p)
                    /\ \A k \in 1..Len(events) :
                          /\ Includes(kvState.seenIds, events[k].id)
                          /\ kvState.fingerprints[events[k].id] = events[k].fingerprint

\* C16 witness: the incidents fetch failed, a maintenance endpoint served an
\* event, and the cycle delivered that event and committed
C16_Witness ==
    \E p \in Procs :
       /\ cyc[p].pc = "done"
       /\ Len(obs[p].responses) = 3
       /\ ~obs[p].responses[1].ok
       /\ Len(cyc[p].events) > 0
       /\ obs[p].attempts # {}
       /\ Includes(kvState.seenIds, cyc[p].events[1].id)

\* C17: eventMatchesSubscription is true, and the delivery is made, iff
\* (1) not (eventTypes = incidents and the event is a maintenance), (2) not
\* (eventTypes = maintenance and the event is an incident), (3) an incident
\* under a minImpact other than none has an impact of at least that rank on
\* none < minor < major < critical, and (4) with a non-empty services list
\* some service, lowercased, is a substring of the lowercased title, a
\* space, and the component names joined by spaces.
Rank(impact) ==
    CASE impact = "none" -> 0
      [] impact = "minor" -> 1
      [] impact = "major" -> 2
      [] impact = "critical" -> 3
      [] OTHER -> -1

Haystack(event) ==
    ToLowerCase(event.name) \o <<" ">> \o ToLowerCase(JoinSpace(event.components))

TypeDimension(event, subscription) ==
    /\ ~(subscription.eventTypes = "incidents" /\ event.eventType = "maintenance")
    /\ ~(subscription.eventTypes = "maintenance" /\ event.eventType = "incident")

ImpactDimension(event, subscription) ==
    (event.eventType = "incident" /\ subscription.minImpact # "none") =>
        Rank(event.impact) >= Rank(subscription.minImpact)

ServiceDimension(event, subscription) ==
    subscription.services # <<>> =>
        \E service \in Range(subscription.services) :
            StrIncludes(Haystack(event), ToLowerCase(service))

\* the delivery for the examined pair x is at its send, or has been attempted
Due(p, x) ==
    \/ \E att \in obs[p].attempts : att.i = x.i /\ att.chatId = x.chatId
    \/ /\ cyc[p].pc = "send"
       /\ cyc[p].i = x.i
       /\ cyc[p].subscriberIds[cyc[p].j] = x.chatId

C17_MatcherConjunction ==
    \A p \in Procs : \A x \in obs[p].examined :
       x.subscription # null =>
          LET event == cyc[p].events[x.i]
              all == /\ TypeDimension(event, x.subscription)
                     /\ ImpactDimension(event, x.subscription)
                     /\ ServiceDimension(event, x.subscription)
          IN  /\ eventMatchesSubscription(event, x.subscription) <=> all
              /\ Due(p, x) <=> all

\* C17 witness: a major incident was delivered under minImpact major through
\* a service that differs in case from its component
C17_Witness ==
    \E p \in Procs : \E x \in obs[p].examined :
       LET event == cyc[p].events[x.i]
       IN  /\ x.subscription # null
           /\ event.eventType = "incident" /\ event.impact = "major"
           /\ x.subscription.minImpact = "major"
           /\ x.subscription.eventTypes = "incidents"
           /\ x.subscription.services = <<<<"r", "L">>>>
           /\ event.components = <<<<"R", "L">>>>
           /\ \E att \in obs[p].attempts : att.i = x.i /\ att.chatId = x.chatId

\* C19: two events of a snapshot have the same fingerprint iff they have
\* the same status and the same latest update id (no update counting as
\* the empty id).
C19_FingerprintInjective ==
    \A p \in Procs : \A k, m \in 1..Len(cyc[p].events) :
       LET e1 == cyc[p].events[k]
           e2 == cyc[p].events[m]
       IN  (e1.fingerprint = e2.fingerprint) <=>
              (e1.status = e2.status /\ LatestUpdateId(e1) = LatestUpdateId(e2))

\* C18: the record /start has just written for a chat that had none is
\* {services: [], minImpact: none, eventTypes: all}; it matches every event
\* of either kind, whatever its impact, title and components; and a cycle
\* that reads such a record for a changed event delivers the event.
DefaultSubscription(c) ==
    [chatId |-> c, services |-> <<>>, minImpact |-> "none", eventTypes |-> "all"]

WideEvents == UNION {Range(snapshot) : snapshot \in InputSnapshots}

C18_StartMatchesAll ==
    /\ \A c \in Chats :
          (/\ cmd[c].pc = "addIndex"
           /\ cmd[c].partial = EmptyPartial
           /\ cmd[c].existing = null) =>
             /\ kvSubs[c] = DefaultSubscription(c)
             /\ \A event \in WideEvents : eventMatchesSubscription(event, kvSubs[c])
    /\ \A p \in Procs : \A x \in obs[p].examined :
          x.subscription = DefaultSubscription(x.chatId) => Due(p, x)

\* C18 witness: on a fresh deployment chat 2 has sent /start, and a cycle
\* has read the record it got and delivered an incident and a maintenance
C18_Witness ==
    \E p \in Procs :
       /\ obs[p].prev = null
       /\ kvSubs[2] = DefaultSubscription(2)
       /\ \E att \in obs[p].attempts :
             att.chatId = 2 /\ cyc[p].events[att.i].eventType = "incident"
       /\ \E att \in obs[p].attempts :
             att.chatId = 2 /\ cyc[p].events[att.i].eventType = "maintenance"
       /\ \A x \in obs[p].examined :
             x.chatId = 2 => x.subscription = DefaultSubscription(2)

\* C20: once a subscribed chat's '/filter impact L' with L in {minor, major,
\* critical} has completed, a cycle that starts afterwards reads a record
\* with that floor, delivers to the chat only incidents of impact rank >= L,
\* and delivers a maintenance event exactly when the same record with
\* minImpact = none would match it.
C20_FloorOnlyForIncidents ==
    \A p \in Procs : \A x \in obs[p].examined :
       LET level == obs[p].floor[x.chatId]
           event == cyc[p].events[x.i]
       IN  level \in {"minor", "major", "critical"} =>
              /\ x.subscription # null
              /\ x.subscription.minImpact = level
              /\ (event.eventType = "incident" /\ Due(p, x)) =>
                     Rank(event.impact) >= Rank(level)
              /\ event.eventType = "maintenance" =>
                     (Due(p, x) <=>
                        eventMatchesSubscription(
                            event, [x.subscription EXCEPT !.minImpact = "none"]))

\* C20 witness: chat 1 has set its floor to major; the cycle after it has
\* delivered to chat 1 an incident of critical impact and a maintenance
\* event
C20_Witness ==
    \E p \in Procs :
       /\ obs[p].floor[1] = "major"
       /\ \E att \in obs[p].attempts :
             /\ att.chatId = 1
             /\ cyc[p].events[att.i].eventType = "incident"
             /\ cyc[p].events[att.i].impact = "critical"
       /\ \E att \in obs[p].attempts :
             att.chatId = 1 /\ cyc[p].events[att.i].eventType = "maintenance"

\* C21: when the cycle reads no record for a listed chat id (also when an
\* /unsubscribe deleted it while the cycle was running), it makes no delivery
\* of that event to that chat, and it goes on: once it is done it has
\* examined every listed chat for every changed event, has attempted every
\* delivery that was due, and has committed its snapshot.
Attempted(p, x) ==
    \E att \in obs[p].attempts : att.i = x.i /\ att.chatId = x.chatId

C21_AbsentRecordSkipped ==
    \A p \in Procs :
       /\ \A x \in obs[p].examined : x.subscription = null => ~Due(p, x)
       /\ (\E x \in obs[p].examined : x.subscription = null) =>
             /\ cyc[p].pc \notin {"threw", "failed"}
             /\ cyc[p].pc = "done" =>
                   /\ \A i \in 1..Len(cyc[p].events) :
                         Changed(obs[p].classes[i]) =>
                            \A j \in 1..Len(cyc[p].subscriberIds) :
                               \E x \in obs[p].examined :
                                  /\ x.i = i
                                  /\ x.chatId = cyc[p].subscriberIds[j]
                                  /\ SubscriptionDue(cyc[p].events[i], x.subscription)
                                        => Attempted(p, x)
                   /\ lastCommit # null
                   /\ lastCommit.by = p
                   /\ lastCommit.events = cyc[p].events

\* C21 witness: a finished cycle found no record for chat 1, which was
\* listed first, and delivered the same event to chat 2
C21_Witness ==
    \E p \in Procs :
       /\ cyc[p].pc = "done"
       /\ cyc[p].subscriberIds = <<1, 2>>
       /\ \E x \in obs[p].examined :
             /\ x.chatId = 1
             /\ x.subscription = null
             /\ \E att \in obs[p].attempts : att.i = x.i /\ att.chatId = 2

\* C22: a chat whose /unsubscribe has returned and that has issued no /start
\* since has no subscription record, and a cycle that started after the
\* /unsubscribe returned reads no record for it and makes no delivery to it,
\* as long as the chat has issued no command since the cycle started; the
\* commands of the other chat interleave freely.
StillUnsubscribed(p, c) ==
    c \in obs[p].unsubscribed /\ nCommands[c] = obs[p].issued[c]

C22_NoDeliveryAfterUnsubscribe ==
    /\ \A c \in unsubscribed : kvSubs[c] = null
    /\ \A p \in Procs : \A x \in obs[p].examined :
          StillUnsubscribed(p, x.chatId) => x.subscription = null /\ ~Due(p, x)
    /\ \A p \in Procs : \A att \in obs[p].attempts :
          ~StillUnsubscribed(p, att.chatId)

\* C22 witness: chat 1 had unsubscribed when the cycle started, the other
\* chat's command has put it back on the index, and the finished cycle has
\* read chat 1's record for a changed event
C22_Witness ==
    \E p \in Procs :
       /\ cyc[p].pc = "done"
       /\ StillUnsubscribed(p, 1)
       /\ nCommands[2] > 0
       /\ \E x \in obs[p].examined : x.chatId = 1

\* C28: whatever the interleaving of the KV reads and writes of the /start
\* and /unsubscribe commands of distinct chats, once every command has
\* returned each chat that has a subscription record is on the subscriber
\* index.
C28_RecordImpliesListed ==
    NoCommandRunning =>
       \A c \in Chats : kvSubs[c] # null => Includes(kvIndex, c)

\* C27: an event that the snapshot before the last held (committed by a
\* cycle with subscribers, so notified), that the last committed snapshot
\* did not hold, and that the present snapshot holds again with the same
\* status and latest update id, is not delivered in the present cycle;
\* every snapshot involved has unique ids.
SameFingerprint(e1, e2) ==
    e1.status = e2.status /\ LatestUpdateId(e1) = LatestUpdateId(e2)

BackAfterOneCycle(p, event) ==
    LET prev == obs[p].prev
    IN  /\ prev # null
        /\ prev.earlier # null
        /\ prev.earlier.hadSubscribers
        /\ UniqueIds(prev.earlier.events)
        /\ UniqueIds(cyc[p].events)
        /\ event.id \notin CurrentIds(prev.events)
        /\ \E k \in 1..Len(prev.earlier.events) :
              /\ prev.earlier.events[k].id = event.id
              /\ SameFingerprint(prev.earlier.events[k], event)

C27_ReappearanceSuppressed ==
    \A p \in Procs : \A att \in obs[p].attempts :
       ~BackAfterOneCycle(p, cyc[p].events[att.i])

\* C29: when a delivery of an event to a chat failed in the cycle that made
\* the last commit, the present cycle attempts no delivery to that chat of
\* an event with the same id and the same fingerprint, unless the id was
\* no longer in the seenIds it loaded.
C29_FailedNotRetried ==
    \A p \in Procs : \A att \in obs[p].attempts :
       LET event == cyc[p].events[att.i]
       IN  (obs[p].prev # null /\ Includes(obs[p].loaded.seenIds, event.id)) =>
              [id |-> event.id, fingerprint |-> event.fingerprint,
               chatId |-> att.chatId] \notin obs[p].prev.failed

\* the '/filter' command of kind k whose record chat c has just put
FilterStored(c, kind) ==
    /\ cmd[c].pc = "addIndex"
    /\ cmd[c].input # null
    /\ cmd[c].input.kind = kind

\* what a second run of the command chat c is in would put
StoredAgain(c) ==
    MergeSubscription(c, FilterPartial(cmd[c].args, kvSubs[c]), kvSubs[c])

\* C23: when a subscribed chat's '/filter service s1, s2, ...' has put its
\* record, the services of the record are the listed names in their order
\* (the empty list when no name or the single name 'all' was listed),
\* whatever the list was before; chatId, minImpact and eventTypes are those
\* of the record before; and the same command run again would put the same
\* record.
C23_ServiceListReplaced ==
    \A c \in Chats :
       FilterStored(c, "service") =>
          LET names == cmd[c].input.names
              listed == IF \/ names = <<>>
                           \/ Len(names) = 1 /\ ToLowerCase(names[1]) = KwAll
                        THEN <<>>
                        ELSE names
          IN  /\ cmd[c].existing # null
              /\ kvSubs[c] = [cmd[c].existing EXCEPT !.services = listed]
              /\ StoredAgain(c) = kvSubs[c]

\* C23 witness: chat 1, whose list was the one name 'x', has put the record
\* of '/filter service F , r l', and its list is the two listed names
C23_Witness ==
    /\ FilterStored(1, "service")
    /\ cmd[1].input.sep = <<" ", ",", " ">>
    /\ cmd[1].existing.services = <<<<"x">>>>
    /\ cmd[1].existing.minImpact = "major"
    /\ kvSubs[1].services = <<<<"F">>, <<"r", " ", "l">>>>

\* C24: when a subscribed chat's '/filter event ...' has put its record,
\* eventTypes is 'incidents' when incidents is the only event type listed,
\* 'maintenance' when maintenance is the only one, and 'all' when both or
\* none are listed; and the record matches no event of another kind.
ListedTypes(names) ==
    {word \in {"incidents", "maintenance"} :
        Includes(ToLowerCaseAll(names), Spelling(word))}

C24_EventTypesStored ==
    \A c \in Chats :
       FilterStored(c, "event") =>
          LET listed == ListedTypes(cmd[c].input.names)
          IN  /\ kvSubs[c].eventTypes =
                    IF listed = {"incidents"} THEN "incidents"
                    ELSE IF listed = {"maintenance"} THEN "maintenance"
                    ELSE "all"
              /\ \A event \in WideEvents :
                    eventMatchesSubscription(event, kvSubs[c]) =>
                       \/ Cardinality(listed) # 1
                       \/ event.eventType = "incident" /\ listed = {"incidents"}
                       \/ event.eventType = "maintenance"
                             /\ listed = {"maintenance"}

\* the service name of the bare form '/filter <service>'
BareName(c) == Join(cmd[c].input.names, <<" ">>)

BareStored(c) ==
    /\ FilterStored(c, "bare")
    /\ ToLowerCase(BareName(c)) # KwAll

Listed(services, name) ==
    \E k \in 1..Len(services) : ToLowerCase(services[k]) = ToLowerCase(name)

C30_AddedOrKept ==
    \A c \in Chats :
       (BareStored(c) /\ cmd[c].existing.services # <<>>) =>
          kvSubs[c].services =
             IF Listed(cmd[c].existing.services, BareName(c))
             THEN cmd[c].existing.services
             ELSE Append(cmd[c].existing.services, BareName(c))

\* C31: with the commands handled one at a time, whenever no command is
\* running the subscriber index lists exactly the chats that have a stored
\* subscription record, each of them once.
C31_IndexIsTheRecords ==
    NoCommandRunning =>
       /\ \A c \in Chats : Includes(kvIndex, c) <=> kvSubs[c] # null
       /\ \A j, k \in 1..Len(kvIndex) : kvIndex[j] = kvIndex[k] => j = k

\* C31 witness: chat 1 had its record, the /start of chat 2 has returned,
\* and the index lists both
C31_Witness ==
    /\ NoCommandRunning
    /\ nCommands[2] > 0
    /\ kvSubs[1] # null
    /\ kvSubs[2] # null
    /\ kvIndex = <<1, 2>>

\* C32: the put of saveSubscription over a stored record leaves chatId,
\* createdAt and every one of services, minImpact, eventTypes that the
\* update does not name as they were stored, and sets updatedAt to the time
\* of the save; so the empty update of /start changes none of the three.
C32_OnlyNamedFieldsChange ==
    [][\A c \in Chats :
          (cmd[c].pc = "put" /\ cmd'[c].pc = "addIndex" /\ kvSubs[c] # null) =>
             /\ \A field \in {"services", "minImpact", "eventTypes"} :
                   field \notin DOMAIN cmd[c].partial =>
                      kvSubs'[c][field] = kvSubs[c][field]
             /\ kvSubs'[c].chatId = kvSubs[c].chatId
             /\ kvSubs'[c].createdAt = kvSubs[c].createdAt
             /\ kvSubs'[c].updatedAt = clock.at]_vars

\* C32 witness: chat 1, subscribed at time 0 with the services 'F' and
\* 'r l' and the floor 'major', has put the record of a /start at a later
\* time
C32_Witness ==
    /\ cmd[1].pc = "addIndex"
    /\ cmd[1].partial = EmptyPartial
    /\ cmd[1].existing # null
    /\ kvSubs[1].services = <<<<"F">>, <<"r", " ", "l">>>>
    /\ kvSubs[1].minImpact = "major"
    /\ kvSubs[1].createdAt = 0
    /\ kvSubs[1].updatedAt > 0

\* C33: within one cycle no chat gets two delivery attempts for events of
\* the same id, whether or not the id occurs in more than one of the merged
\* feeds.
C33_OneAttemptPerId ==
    \A p \in Procs : \A att1, att2 \in obs[p].attempts :
       (/\ att1.chatId = att2.chatId
        /\ cyc[p].events[att1.i].id = cyc[p].events[att2.i].id) =>
          att1.i = att2.i

\* C34: for an incident whose impact is none of none, minor, major,
\* critical, a record with minImpact 'none' matches exactly when its event
\* type and service filters pass, and a record with minImpact minor, major
\* or critical does not match; the cycle delivers accordingly.
C34_UnknownImpact ==
    \A p \in Procs : \A x \in obs[p].examined :
       LET event == cyc[p].events[x.i]
       IN  (/\ x.subscription # null
            /\ event.eventType = "incident"
            /\ ~Includes(IMPACT_LEVELS, event.impact)) =>
              IF x.subscription.minImpact = "none"
              THEN LET others == /\ TypeDimension(event, x.subscription)
                                 /\ ServiceDimension(event, x.subscription)
                   IN  /\ eventMatchesSubscription(event, x.subscription) <=> others
                       /\ Due(p, x) <=> others
              ELSE /\ ~eventMatchesSubscription(event, x.subscription)
                   /\ ~Due(p, x)

\* C34 witness: the cycle has examined an incident of impact 'unknown' for
\* a record with the floor 'minor' and no other filter, and has finished
\* without a delivery
C34_Witness ==
    \E p \in Procs : \E x \in obs[p].examined :
       /\ cyc[p].pc = "done"
       /\ cyc[p].events[x.i].eventType = "incident"
       /\ cyc[p].events[x.i].impact = "unknown"
       /\ x.subscription # null
       /\ x.subscription.minImpact = "minor"
       /\ x.subscription.services = <<>>
       /\ x.subscription.eventTypes = "all"
       /\ obs[p].attempts = {}

\* the /filter in flight for chat c comes from a chat without a record, or
\* is '/filter impact <value>' with a value that is no level
Refused(c) ==
    /\ cmd[c].input # null
    /\ \/ kvSubs[c] = null
       \/ /\ cmd[c].input.kind = "impact"
          /\ ~\E k \in 1..Len(IMPACT_LEVELS) :
                 Spelling(IMPACT_LEVELS[k]) = ToLowerCase(cmd[c].input.names[1])

\* C35: a command that returns at once (/settings, /status, /help, an
\* unknown command, other text, /filter without arguments), the start of
\* any /filter, and every step of a /filter from a chat without a record or
\* of a '/filter impact' with a value outside none|minor|major|critical,
\* leave every subscription record and the subscriber index as they were,
\* and such a /filter returns without a save.
C35_RepliesOnly ==
    [][\A c \in Chats :
          /\ (/\ cmd[c].pc = "idle"
              /\ cmd'[c].pc \in {"idle", "filter"}
              /\ nCommands'[c] # nCommands[c]) => UNCHANGED <<kvSubs, kvIndex>>
          /\ (Refused(c) /\ cmd'[c] # cmd[c]) =>
                /\ UNCHANGED <<kvSubs, kvIndex>>
                /\ cmd'[c].pc = "idle"]_vars

\* C35 witness: chat 2, which has no record, has sent '/filter F' while
\* chat 1 is subscribed; the handler is at its getSubscription and the
\* store holds chat 1 only
C35_Witness ==
    /\ cmd[2].pc = "filter"
    /\ cmd[2].input.kind = "bare"
    /\ kvSubs[2] = null
    /\ kvSubs[1] # null
    /\ kvIndex = <<1>>

C37_RejectedRequestInert ==
    /\ [](\A c \in Chats :
            (web.secret # "" /\ web.req[c].status \in {"handling", "200"}) =>
               web.req[c].header = web.secret)
    /\ [][\A c \in Chats :
             web.secret # "" =>
                /\ (/\ web'.req[c] # web.req[c]
                    /\ web'.req[c].status \in {"handling", "401"}
                    /\ web'.req[c].header # web.secret) =>
                      /\ web'.req[c].status = "401"
                      /\ UNCHANGED <<kvSubs, kvIndex, cmd, nCommands>>
                /\ nCommands'[c] # nCommands[c] =>
                      /\ web.req[c].status = "handling"
                      /\ web.req[c].header = web.secret]_vars

\* C37 witness: the secret is 's'; a request for subscribed chat 1 without
\* the header has been answered 401 and one for chat 2 with the token 't'
\* also, and both records and the index are in place
C37_Witness ==
    /\ web.secret = "s"
    /\ web.req[1].status = "401"
    /\ web.req[1].header = NoHeader
    /\ web.req[2].status = "401"
    /\ web.req[2].header = "t"
    /\ kvSubs = TwoSubscribers
    /\ kvIndex = <<1, 2>>

\* C38: no id occurs twice in seenIds, in the state a cycle holds in
\* memory and in the stored bot_state, also when a snapshot holds an id
\* more than once.
C38_SeenIdsUnique ==
    LET Unique(ids) == Cardinality(Range(ids)) = Len(ids)
    IN  /\ kvState # null => Unique(kvState.seenIds)
        /\ \A p \in Procs : Unique(cyc[p].state.seenIds)

\* C38 witness: a cycle that loaded the empty state and fetched a snapshot
\* holding id b twice, for a chat that had subscribed, is past its
\* saveState and b is in the stored seenIds
C38_Witness ==
    \E p \in Procs :
       /\ cyc[p].pc = "done"
       /\ obs[p].loaded.seenIds = <<>>
       /\ Len(cyc[p].subscriberIds) > 0
       /\ ~UniqueIds(cyc[p].events)
       /\ kvState # null
       /\ Includes(kvState.seenIds, b)

====
